---- MODULE Spec2Model ----
(***************************************************************************)
(* Model of the graph-api node, edge and graph services: the tables nodes, *)
(* edges, graphs and graph_edges with their id sequences, unique           *)
(* constraints and foreign keys, the single-row create paths, the bulk     *)
(* COPY pipelines with their conflict loops, the bulk graph upload, the    *)
(* deletes and the graph assembly.                                         *)
(* Every service coroutine is a process p whose position is pc[p]          *)
(* and whose locals are frame[p]; one action is one stretch of code        *)
(* between two awaits on the store.                                        *)
(***************************************************************************)
EXTENDS Integers, Sequences, FiniteSets, TLC

VARIABLES
    nodes,          \* rows of table nodes
    node_id_seq,    \* last value handed out by sequence node_id_seq
    edges,          \* rows of table edges
    edges_id_seq,   \* last value handed out by sequence edges_id_seq
    files,          \* names of the csv files that exist in CSV_DIR
    calls,          \* number of writing service calls started so far
    pc,             \* pc[p]: where coroutine p stands
    frame,          \* frame[p]: the locals of coroutine p
    hist,           \* hist[dto]: id last returned by NodeService.create(dto);
                    \* hist[<<dto, graph>>]: relationship id last returned by add_edge
    graphs,         \* rows of table graphs
    graphs_id_seq,  \* last value handed out by sequence graphs_id_seq
    graph_edges,    \* rows of table graph_edges
    graph_edges_id_seq, \* last value handed out by sequence graph_edges_id_seq
    txid,           \* the store's transaction counter: txid_current() of the last writing transaction
    xmin,           \* xmin[<<table, id>>]: the system column xmin of a stored row
    asm,            \* what the last build_nx_graph that returned had been asked and assigned
    cwd             \* cwd[name]: the lines of the csv file of that name in the working directory

\* the tables of the graph service, and the store's transaction bookkeeping
graphVars == <<graphs, graphs_id_seq, graph_edges, graph_edges_id_seq, asm, cwd>>
txVars == <<txid, xmin>>

vars == <<nodes, node_id_seq, edges, edges_id_seq, files, calls, pc, frame, hist, graphVars, txVars>>

(***************************************************************************)
(* Bounds of the model.                                                    *)
(***************************************************************************)
MaxCalls == 3
MaxBatch == 2
MaxLinks == 2

Procs == {1, 2}

(***************************************************************************)
(* Values.  A coordinate is an integer count of 1e-10 degrees, so a point  *)
(* may carry one more decimal digit than ST_AsGeoJSON prints.              *)
(***************************************************************************)
NodeTypeEnum == {"DRIVE", "WALK"}
DefaultRoute == ""

Max(S) == CHOOSE x \in S : \A y \in S : y <= x
Min(S) == CHOOSE x \in S : \A y \in S : x <= y
Range(s) == {s[i] : i \in 1..Len(s)}

\* str(shapely geometry): the WKT text, every digit of the coordinate kept
Wkt(pt) == <<"POINT", pt>>
\* "SRID=4326; " + wkt
Ewkt(wkt) == <<"SRID=4326; ", wkt>>
\* ST_GeomFromText(wkt, 4326) and the COPY input of an EWKT text
ST_GeomFromText(wkt) == wkt[2]
\* ST_AsGeoJSON(point): the coordinates printed with maxdecimaldigits = 9, the tenth
\* digit lost
ST_AsGeoJSON(pt) == pt - (pt % 10)
\* ST_Equals on two points
ST_Equals(a, b) == a = b
\* ST_Intersects(area, point); NoGeometry stands for a geometry of None
NoGeometry == {-1}
ST_Intersects(area, pt) == pt \in area

\* a LineString is the sequence of its points; NoLine stands for a geometry of None
NoLine == <<>>
WktLine(line) == <<"LINESTRING", line>>
\* ST_AsGeoJSON(linestring): every coordinate printed with 9 decimal digits
ST_AsGeoJSONLine(line) == [i \in DOMAIN line |-> ST_AsGeoJSON(line[i])]
\* ST_Equals on two linestrings: the same point set, whatever the direction
ST_EqualsLine(g, h) == Range(g) = Range(h)
\* ST_OrderingEquals on two linestrings: the same points in the same order
ST_OrderingEquals(g, h) == g = h

\* a column that holds SQL NULL (None in Python)
NULL == "<NULL>"

\* the columns of the unique constraint node_multiunique
NodeKey(r) == <<r.type, r.point, r.route>>

\* NodeEntity(**row): the row as the service returns it (point read through ST_AsGeoJSON)
NodeEntity(row) == [id |-> row.id, type |-> row.type, point |-> ST_AsGeoJSON(row.point), route |-> row.route]

NoEntity == [id |-> 0, type |-> "", point |-> 0, route |-> ""]
NoDto == [type |-> "", point |-> 0, route |-> ""]

EdgeTypeEnum == {"DRIVE", "WALK", "WATERCHANNEL"}

\* the columns of the unique constraint edges_multiunique
EdgeKey(r) == <<r.u, r.v, r.type, r.geometry, r.route>>

\* an endpoint of CreateEdgeDTO (u: int | CreateNodeDTO)
NodeId(n) == [id |-> n, dto |-> NoDto]
NodeDto(d) == [id |-> 0, dto |-> d]
IsCreateNodeDTO(x) == x.dto # NoDto

\* EdgeEntity(**row): the row as the service returns it; weight stands for the
\* columns outside the unique key (weight, weight_type, level, speed, properties)
EdgeEntity(row) == [row EXCEPT !.geometry = ST_AsGeoJSONLine(row.geometry)]

NoEdgeEntity == [id |-> 0, u |-> 0, v |-> 0, type |-> "", weight |-> 0, route |-> "", geometry |-> NoLine]
NoEdgeDto == [u |-> NodeId(0), v |-> NodeId(0), type |-> "", weight |-> 0, route |-> "", geometry |-> NoLine]

\* a str is the sequence of its characters
Digits == <<"0", "1", "2", "3", "4", "5", "6", "7", "8", "9">>
\* str.isnumeric(): at least one character, every character numeric
isnumeric(s) == s # <<>> /\ \A i \in 1..Len(s) : s[i] \in Range(Digits)
RECURSIVE Str(_)
\* str(n) of an int
Str(n) == IF n < 0 THEN <<"-">> \o Str(0 - n)
          ELSE IF n < 10 THEN <<Digits[n + 1]>>
          ELSE Str(n \div 10) \o <<Digits[(n % 10) + 1]>>
RECURSIVE int(_)
\* int(s) of a numeric str
int(s) == IF s = <<>> THEN 0
          ELSE 10 * int(SubSeq(s, 1, Len(s) - 1)) + ((CHOOSE d \in 1..10 : Digits[d] = s[Len(s)]) - 1)

\* SelectGraphWithEdgesDTO: id_or_name (None is NoName), geometry, type
NoName == <<"<None>">>
NoSelector == [id_or_name |-> NoName, geometry |-> NoGeometry, type |-> ""]

\* the locals of a coroutine: df_nodes is the frame of records (new_id 0 is NaN), df
\* the index labels of the rows still to be sent, csv the name of the batch file,
\* lines the csv lines of the last COPY and res the ids execute_copy returned.
\* t0 and e0 are the tables as the call found them; ctx says which endpoint of an
\* edge a nested NodeService.create is resolving
IdleFrame == [op |-> "idle", dto |-> NoDto, found |-> 0, ret |-> NoEntity, err |-> "", t0 |-> {}, e0 |-> {},
              input |-> <<>>, df_nodes |-> <<>>, df_edges |-> <<>>, df |-> <<>>, csv |-> <<>>, detail |-> <<>>,
              uploaded |-> 0, attempts |-> 0, dropped |-> 0, res |-> <<>>, lines |-> <<>>, elines |-> <<>>,
              ctx |-> "", edto |-> NoEdgeDto, node_u |-> 0, node_v |-> 0, edge |-> NoEdgeEntity,
              caller |-> "", stage |-> "", graph |-> 0, name |-> <<>>, gtype |-> "", link |-> 0, g0 |-> {}, l0 |-> {},
              bnodes |-> <<>>, bedges |-> <<>>, total_geometry |-> {}, new_nodes_id |-> <<>>,
              report |-> [nodes |-> 0, edges |-> 0, relationships |-> 0],
              selected_edge_types |-> [list |-> FALSE, types |-> {}],
              selected_node_types |-> [list |-> FALSE, types |-> {}],
              tx0 |-> [epoch |-> 0, xid |-> 0], sel |-> NoSelector, out_graph |-> 0, out_edges |-> <<>>, out_nodes |-> <<>>, keys |-> <<>>]

(***************************************************************************)
(* The store's transactions.  txid_current() is the 64-bit pair of an      *)
(* epoch and a 32-bit xid; a row's xmin is the xid of the transaction that *)
(* inserted it.  The xid wraps into the next epoch after 2^32 writing      *)
(* transactions.                                                           *)
(***************************************************************************)
\* the transaction id the next writing transaction gets
NextTxid(t) == [t EXCEPT !.xid = t.xid + 1]
\* txid_current() % (2^32)::bigint: the epoch dropped, the xid kept
Xid32(t) == t.xid
\* xmin after transaction t inserted the rows ids into table
Stamp(xm, table, ids, t) ==
    [k \in DOMAIN xm \cup {<<table, i>> : i \in ids} |-> IF k \in DOMAIN xm THEN xm[k] ELSE Xid32(t)]

(***************************************************************************)
(* The store's single-row statements.                                      *)
(***************************************************************************)
\* nodes.select_one_by_geometry: the ids of the rows the statement returns
MatchNodesByGeometry(tbl, pt) == {n.id : n \in {m \in tbl : ST_Equals(ST_GeomFromText(Wkt(pt)), m.point)}}

\* INSERT INTO nodes: does the unique index node_multiunique reject the row
NodeInsertUnchecked(tbl, row) == FALSE
NodeInsertConflicts(tbl, row) == \E n \in tbl : NodeKey(n) = NodeKey(row)

\* the row NodeService.create inserts: type and point of the dto, route the column default
NodeCreateRow(dto, id) == [id |-> id, type |-> dto.type, point |-> ST_GeomFromText(Wkt(dto.point)), route |-> DefaultRoute]

Init ==
    /\ nodes = {}
    /\ node_id_seq = 0
    /\ edges = {}
    /\ edges_id_seq = 0
    /\ files = {}
    /\ calls = 0
    /\ pc = [p \in Procs |-> "idle"]
    /\ frame = [p \in Procs |-> IdleFrame]
    /\ hist = [d \in {} |-> 0]
    /\ graphs = {}
    /\ graphs_id_seq = 0
    /\ graph_edges = {}
    /\ graph_edges_id_seq = 0
    /\ txid = [epoch |-> 0, xid |-> 0]
    /\ xmin = [k \in {} |-> 0]
    /\ asm = [sel |-> NoSelector, tx0 |-> txid, keys |-> {}]
    /\ cwd = [n \in {} |-> <<>>]

\* a service coroutine returns f.ret or raises f.err: to the caller of the service, or,
\* inside EdgeService.create (lines 53-56), to the statement after the nested await, or,
\* inside GraphService (add_edge line 106, bulk_graph_upload lines 213-222), to the
\* statement f.caller names.  An exception passes through every caller: none catches it.
Finish(p, f) ==
    IF f.err # "" \/ (f.ctx = "" /\ f.caller = "")
    THEN /\ pc' = [pc EXCEPT ![p] = "done"]
         /\ frame' = [frame EXCEPT ![p] = f]
    ELSE IF f.ctx = "u"
    THEN /\ pc' = [pc EXCEPT ![p] = IF IsCreateNodeDTO(f.edto.v) THEN "edge.create.node_v"
                                                                 ELSE "edge.create.insert"]
         /\ frame' = [frame EXCEPT ![p] = [f EXCEPT !.node_u = f.ret.id, !.ctx = ""]]
    ELSE IF f.ctx = "v"
    THEN /\ pc' = [pc EXCEPT ![p] = "edge.create.insert"]
         /\ frame' = [frame EXCEPT ![p] = [f EXCEPT !.node_v = f.ret.id, !.ctx = ""]]
    ELSE /\ pc' = [pc EXCEPT ![p] = f.caller]
         /\ frame' = [frame EXCEPT ![p] = [f EXCEPT !.caller = ""]]

(***************************************************************************)
(* NodeService.create                                                      *)
(***************************************************************************)
\* lines 45-50: select_one_by_geometry(dto.point), one_or_none() on its result
NodeCreateMatch(p, base, dto) ==
    LET ids == MatchNodesByGeometry(nodes, dto.point)
        f == [base EXCEPT !.dto = dto, !.found = 0, !.ret = NoEntity]
    IN  IF Cardinality(ids) > 1
        THEN Finish(p, [f EXCEPT !.err = "MultipleResultsFound"])
        ELSE IF ids = {}
        THEN /\ pc' = [pc EXCEPT ![p] = "node.create.insert"]
             /\ frame' = [frame EXCEPT ![p] = f]
        ELSE /\ pc' = [pc EXCEPT ![p] = "node.create.select_one"]
             /\ frame' = [frame EXCEPT ![p] = [f EXCEPT !.found = CHOOSE i \in ids : TRUE]]

\* a caller awaits NodeService.create(dto)
NodeCreate_match(p, dto) ==
    /\ pc[p] = "idle"
    /\ calls < MaxCalls
    /\ calls' = calls + 1
    /\ NodeCreateMatch(p, [IdleFrame EXCEPT !.op = "node.create", !.t0 = nodes, !.e0 = edges], dto)
    /\ UNCHANGED <<nodes, node_id_seq, files, hist, edges, edges_id_seq, graphVars, txVars>>

\* line 50 and select_one: the row with the id found, 404 if it is gone
NodeCreate_select_one(p) ==
    /\ pc[p] = "node.create.select_one"
    /\ LET rows == {n \in nodes : n.id = frame[p].found}
       IN  IF rows = {}
           THEN Finish(p, [frame[p] EXCEPT !.err = "404 NODE_NOT_FOUND"])
           ELSE Finish(p, [frame[p] EXCEPT !.ret = NodeEntity(CHOOSE n \in rows : TRUE)])
    /\ UNCHANGED <<nodes, node_id_seq, files, calls, hist, edges, edges_id_seq, graphVars, txVars>>

\* lines 52-75: INSERT of (type, properties, point), route left to its default, and commit
NodeCreate_insert(p) ==
    /\ pc[p] = "node.create.insert"
    /\ LET row == NodeCreateRow(frame[p].dto, node_id_seq + 1)
       IN  /\ node_id_seq' = node_id_seq + 1
           /\ txid' = NextTxid(txid)
           /\ IF NodeInsertConflicts(nodes, row)
              THEN /\ Finish(p, [frame[p] EXCEPT !.err = "UniqueViolationError"])
                   /\ UNCHANGED <<nodes, xmin>>
              ELSE /\ nodes' = nodes \cup {row}
                   /\ xmin' = Stamp(xmin, "nodes", {row.id}, txid')
                   /\ Finish(p, [frame[p] EXCEPT !.ret = NodeEntity(row)])
    /\ UNCHANGED <<files, calls, hist, edges, edges_id_seq, graphVars>>

(***************************************************************************)
(* DatabaseModule.execute_copy on table nodes                              *)
(***************************************************************************)
RECURSIVE SortedIds(_)
\* a set of ids as the list ORDER BY id ASC returns
SortedIds(S) == IF S = {} THEN <<>> ELSE <<Min(S)>> \o SortedIds(S \ {Min(S)})

RECURSIVE Flatten(_)
Flatten(ss) == IF ss = <<>> THEN <<>> ELSE Head(ss) \o Flatten(Tail(ss))

\* the row COPY builds from one csv line, id from the column default nextval(node_id_seq)
NodeOfCsv(rec, id) == [id |-> id, type |-> rec.type, point |-> ST_GeomFromText(rec.point[2]), route |-> rec.route]

\* the csv lines (in order) that the unique index rejects: a key already in the
\* table, or the key of an earlier line of the same COPY
NodeCopyConflicts(lines) ==
    {i \in 1..Len(lines) :
        \/ \E n \in nodes : NodeKey(n) = NodeKey(NodeOfCsv(lines[i], 0))
        \/ \E j \in 1..(i - 1) : NodeKey(NodeOfCsv(lines[j], 0)) = NodeKey(NodeOfCsv(lines[i], 0))}

\* what the transaction leaves in the table when COPY raised at line bad: tr.rollback()
NodeCopyPartial(lines, bad) == nodes \cup {NodeOfCsv(lines[i], node_id_seq + i) : i \in 1..(bad - 1)}
NodeCopyRollback(lines, bad) == nodes

\* the rows of a COPY that went through, ids ascending in line order
NodeCopyRows(lines) == {NodeOfCsv(lines[i], node_id_seq + i) : i \in 1..Len(lines)}

\* lines 85-91: SELECT id FROM table WHERE xmin::text = (txid_current() % 2^32)::text
\* ORDER BY id ASC, run inside transaction t once its COPY went through
CopyReturningAll(table, tbl, xm, t) == SortedIds({r.id : r \in tbl})
CopyReturning(table, tbl, xm, t) == SortedIds({r.id : r \in {x \in tbl : xm[<<table, x.id>>] = Xid32(t)}})

\* e.detail of the UniqueViolationError: "Key (type, point, route)=(T, <hex ewkb>, R) already exists."
Wkb(pt) == <<"WKB", pt>>
from_wkb(hex) == hex[2]
UniqueDetail(key) == <<"Key (type, point, route)=(", key[1], Wkb(key[2]), key[3], ") already exists.">>
\* str.split(", ") on a route of the model
SplitRoute(r) == IF r = "r1, x" THEN <<"r1", "x">> ELSE <<r>>
\* (e.detail[5:-17]).split(")=(")[1].split(", ")
DetailValues(detail) == <<detail[2], detail[3]>> \o SplitRoute(detail[4])

(***************************************************************************)
(* NodeService.create_many and NodeService._conflict_resolver              *)
(***************************************************************************)
\* lines 90-92: the record of one input row, type as its value, point as WKT text
NodeRecord(dto) == [type |-> dto.type, point |-> Wkt(dto.point), route |-> dto.route, new_id |-> 0]

\* NodeService.select_many(SelectNodesDTO(geometry=...)): no graph, no type
SelectManyNodes(geometry) ==
    {NodeEntity(n) : n \in {m \in nodes : geometry = NoGeometry \/ ST_Intersects(geometry, m.point)}}

\* lines 101-106: one left row of the merge on (type, point, route); the existing
\* point is str(entity.point).  Rows of the right side come in id order.
MergeNodeRow(rec, existing) ==
    LET ids == {e.id : e \in {x \in existing :
                    x.type = rec.type /\ Wkt(x.point) = rec.point /\ x.route = rec.route}}
    IN  IF ids = {} THEN <<rec>>
        ELSE [k \in 1..Cardinality(ids) |-> [rec EXCEPT !.new_id = SortedIds(ids)[k]]]

\* lines 94-125: df_nodes after the pre-filter, point as EWKT text
PrefilterNodes(input, geometry) ==
    LET recs == [i \in 1..Len(input) |-> NodeRecord(input[i])]
        existing == SelectManyNodes(geometry)
        merged == IF existing = {} THEN recs
                  ELSE Flatten([i \in 1..Len(recs) |-> MergeNodeRow(recs[i], existing)])
    IN  [i \in 1..Len(merged) |-> [merged[i] EXCEPT !.point = Ewkt(merged[i].point)]]

\* the index labels of the rows whose new_id is NaN, in row order
IsNa(df_nodes) == SortedIds({i \in 1..Len(df_nodes) : df_nodes[i].new_id = 0})

\* lines 131-132: the name of the csv file, from the hash of the pending points
CsvName(table, df_nodes, df) == <<table, [k \in 1..Len(df) |-> df_nodes[df[k]].point]>>

NodeCreateManyDetached(p, base, input, geometry) ==
    /\ frame' = [frame EXCEPT ![p] = [base EXCEPT !.input = input, !.caller = ""]]
    /\ pc' = [pc EXCEPT ![p] = IF base.caller = "" THEN "done" ELSE base.caller]

\* lines 88-135: the pre-filter, up to the first pass of the loop
NodeCreateManyStart(p, base, input, geometry) ==
    /\ LET df_nodes == PrefilterNodes(input, geometry)
           df == IsNa(df_nodes)
       IN  frame' = [frame EXCEPT ![p] = [base EXCEPT
                        !.input = input, !.attempts = 0, !.dropped = 0,
                        !.df_nodes = df_nodes, !.df = df, !.csv = CsvName("nodes", df_nodes, df)]]
    /\ pc' = [pc EXCEPT ![p] = "node.create_many.copy"]

\* a caller awaits NodeService.create_many(df_nodes, geometry)
NodeCreateMany_prefilter(p, input, geometry) ==
    /\ pc[p] = "idle"
    /\ calls < MaxCalls
    /\ calls' = calls + 1
    /\ NodeCreateManyStart(p, [IdleFrame EXCEPT !.op = "node.create_many", !.t0 = nodes, !.e0 = edges],
                           input, geometry)
    /\ UNCHANGED <<nodes, node_id_seq, files, hist, edges, edges_id_seq, graphVars, txVars>>

\* lines 143-144: res[:mask.sum()] written into the rows whose new_id is NaN
FillNewIds(df_nodes, res) ==
    LET mask == IsNa(df_nodes)
    IN  [i \in 1..Len(df_nodes) |->
            IF df_nodes[i].new_id = 0
            THEN [df_nodes[i] EXCEPT !.new_id = res[CHOOSE k \in 1..Len(mask) : mask[k] = i]]
            ELSE df_nodes[i]]

\* lines 137-153: one pass of the loop: to_csv, execute_copy and, when the COPY went
\* through, the ids written back, the file unlinked and the return
NodeCreateMany_copy(p) ==
    /\ pc[p] = "node.create_many.copy"
    /\ LET f == frame[p]
           lines == [k \in 1..Len(f.df) |-> f.df_nodes[f.df[k]]]
           bad == NodeCopyConflicts(lines)
           t == NextTxid(txid)
           copied == nodes \cup NodeCopyRows(lines)
           stamped == Stamp(xmin, "nodes", {r.id : r \in NodeCopyRows(lines)}, t)
           res == CopyReturning("nodes", copied, stamped, t)
           g == [f EXCEPT !.attempts = f.attempts + 1, !.lines = lines]
       IN  /\ txid' = t
           /\ IF bad = {}
              THEN /\ nodes' = copied
                   /\ xmin' = stamped
                   /\ node_id_seq' = node_id_seq + Len(lines)
                   /\ IF Len(res) < Len(IsNa(f.df_nodes))
                      THEN /\ files' = files \cup {f.csv}
                           /\ Finish(p, [g EXCEPT !.res = res, !.err = "ValueError"])
                      ELSE /\ files' = files \ {f.csv}
                           /\ Finish(p, [g EXCEPT !.res = res,
                                                  !.df_nodes = FillNewIds(f.df_nodes, res),
                                                  !.uploaded = Len(res)])
              ELSE /\ nodes' = NodeCopyRollback(lines, Min(bad))
                   /\ xmin' = xmin
                   /\ node_id_seq' = node_id_seq + Min(bad)
                   /\ files' = files \cup {f.csv}
                   /\ frame' = [frame EXCEPT ![p] = [g EXCEPT
                                   !.detail = UniqueDetail(NodeKey(NodeOfCsv(lines[Min(bad)], 0)))]]
                   /\ pc' = [pc EXCEPT ![p] = "node.create_many.resolve"]
    /\ UNCHANGED <<calls, hist, edges, edges_id_seq, graphVars>>

\* select_one_by_unique_critique(type, point, route): the ids the statement returns
SelectNodesByUniqueCritique(type, wkt, route) ==
    {n.id : n \in {m \in nodes : m.type = type /\ ST_Equals(ST_GeomFromText(wkt), m.point) /\ m.route = route}}

\* lines 148-150 and 155-180: the conflicting row located in df_nodes, its id looked
\* up, the row dropped from df
NodeCreateMany_resolve(p) ==
    /\ pc[p] = "node.create_many.resolve"
    /\ LET f == frame[p]
           values == DetailValues(f.detail)
           recovered_geometry == Wkt(from_wkb(values[2]))
           hits == {i \in 1..Len(f.df_nodes) :
                        /\ f.df_nodes[i].type = values[1]
                        /\ f.df_nodes[i].point = Ewkt(recovered_geometry)
                        /\ f.df_nodes[i].route = values[3]}
           found == Min(hits)
           ids == SelectNodesByUniqueCritique(values[1], recovered_geometry, values[3])
       IN  IF hits = {}
           THEN Finish(p, [f EXCEPT !.err = "IndexError"])
           ELSE IF ids = {}
           THEN Finish(p, [f EXCEPT !.err = "404 NODE_NOT_FOUND"])
           ELSE IF found \notin Range(f.df)
           THEN Finish(p, [f EXCEPT !.err = "KeyError",
                                    !.df_nodes[found].new_id = CHOOSE i \in ids : TRUE])
           ELSE /\ frame' = [frame EXCEPT ![p] = [f EXCEPT
                                !.df_nodes[found].new_id = CHOOSE i \in ids : TRUE,
                                !.df = SelectSeq(f.df, LAMBDA i : i # found),
                                !.dropped = f.dropped + 1]]
                /\ pc' = [pc EXCEPT ![p] = "node.create_many.copy"]
    /\ UNCHANGED <<nodes, node_id_seq, files, calls, hist, edges, edges_id_seq, graphVars, txVars>>

(***************************************************************************)
(* EdgeService.create                                                      *)
(***************************************************************************)
\* edges.select_one_by_geometry: the ids of the rows the statement returns
MatchEdgesByGeometry(tbl, line) ==
    {e.id : e \in {x \in tbl : ST_EqualsLine(ST_GeomFromText(WktLine(line)), x.geometry)}}

\* INSERT INTO edges: does the unique index edges_multiunique reject the row (a NULL
\* route equals no route)
EdgeInsertConflicts(tbl, row) == row.route # NULL /\ \E e \in tbl : EdgeKey(e) = EdgeKey(row)

\* does a foreign key of the row (edges.u, edges.v -> nodes.id) point at no node
EdgeForeignKeyFails(row) == {row.u, row.v} \ {n.id : n \in nodes} # {}

\* the row EdgeService.create inserts
EdgeCreateRow(dto, node_u, node_v, id) ==
    [id |-> id, u |-> node_u, v |-> node_v, type |-> dto.type, weight |-> dto.weight,
     route |-> dto.route, geometry |-> ST_GeomFromText(WktLine(dto.geometry))]

\* lines 46-51: select_one_by_geometry(dto.geometry), one_or_none() on its result
EdgeCreateMatch(p, base, dto) ==
       LET ids == MatchEdgesByGeometry(edges, dto.geometry)
           f == [base EXCEPT !.edto = dto, !.node_u = dto.u.id, !.node_v = dto.v.id]
       IN  IF dto.geometry = NoLine
           THEN Finish(p, [f EXCEPT !.err = "AttributeError"])
           ELSE IF Cardinality(ids) > 1
           THEN Finish(p, [f EXCEPT !.err = "MultipleResultsFound"])
           ELSE IF ids # {}
           THEN /\ pc' = [pc EXCEPT ![p] = "edge.create.select_one"]
                /\ frame' = [frame EXCEPT ![p] = [f EXCEPT !.found = CHOOSE i \in ids : TRUE]]
           ELSE /\ pc' = [pc EXCEPT ![p] = IF IsCreateNodeDTO(dto.u) THEN "edge.create.node_u"
                                          ELSE IF IsCreateNodeDTO(dto.v) THEN "edge.create.node_v"
                                          ELSE "edge.create.insert"]
                /\ frame' = [frame EXCEPT ![p] = f]

\* a caller awaits EdgeService.create(dto)
EdgeCreate_match(p, dto) ==
    /\ pc[p] = "idle"
    /\ calls < MaxCalls
    /\ calls' = calls + 1
    /\ EdgeCreateMatch(p, [IdleFrame EXCEPT !.op = "edge.create", !.t0 = nodes, !.e0 = edges], dto)
    /\ UNCHANGED <<nodes, node_id_seq, edges, edges_id_seq, files, hist, graphVars, txVars>>

\* line 51 and select_one: the row with the id found, 404 if it is gone
EdgeCreate_select_one(p) ==
    /\ pc[p] = "edge.create.select_one"
    /\ LET rows == {e \in edges : e.id = frame[p].found}
       IN  IF rows = {}
           THEN Finish(p, [frame[p] EXCEPT !.err = "404 EDGE_NOT_FOUND"])
           ELSE Finish(p, [frame[p] EXCEPT !.edge = EdgeEntity(CHOOSE e \in rows : TRUE)])
    /\ UNCHANGED <<nodes, node_id_seq, edges, edges_id_seq, files, calls, hist, graphVars, txVars>>

\* lines 53-54: node_u = await self.node_service.create(dto.u), up to its dedup read
EdgeCreate_node_u(p) ==
    /\ pc[p] = "edge.create.node_u"
    /\ NodeCreateMatch(p, [frame[p] EXCEPT !.ctx = "u"], frame[p].edto.u.dto)
    /\ UNCHANGED <<nodes, node_id_seq, edges, edges_id_seq, files, calls, hist, graphVars, txVars>>

\* lines 55-56: node_v = await self.node_service.create(dto.v), up to its dedup read
EdgeCreate_node_v(p) ==
    /\ pc[p] = "edge.create.node_v"
    /\ NodeCreateMatch(p, [frame[p] EXCEPT !.ctx = "v"], frame[p].edto.v.dto)
    /\ UNCHANGED <<nodes, node_id_seq, edges, edges_id_seq, files, calls, hist, graphVars, txVars>>

\* lines 58-94: INSERT of the edge row and commit
EdgeCreate_insert(p) ==
    /\ pc[p] = "edge.create.insert"
    /\ LET f == frame[p]
           row == EdgeCreateRow(f.edto, f.node_u, f.node_v, edges_id_seq + 1)
       IN  /\ edges_id_seq' = edges_id_seq + 1
           /\ txid' = NextTxid(txid)
           /\ IF EdgeInsertConflicts(edges, row)
              THEN /\ Finish(p, [f EXCEPT !.err = "UniqueViolationError"])
                   /\ UNCHANGED <<edges, xmin>>
              ELSE IF EdgeForeignKeyFails(row)
              THEN /\ Finish(p, [f EXCEPT !.err = "ForeignKeyViolationError"])
                   /\ UNCHANGED <<edges, xmin>>
              ELSE /\ edges' = edges \cup {row}
                   /\ xmin' = Stamp(xmin, "edges", {row.id}, txid')
                   /\ Finish(p, [f EXCEPT !.edge = EdgeEntity(row)])
    /\ UNCHANGED <<nodes, node_id_seq, files, calls, hist, graphVars>>

(***************************************************************************)
(* DatabaseModule.execute_copy on table edges                              *)
(***************************************************************************)
\* the row COPY builds from one csv line, id from the column default nextval(edges_id_seq)
EdgeOfCsv(rec, id) ==
    [id |-> id, u |-> rec.u, v |-> rec.v, type |-> rec.type, weight |-> rec.weight,
     route |-> rec.route, geometry |-> ST_GeomFromText(rec.geometry[2])]

\* the csv lines (in order) that the unique index rejects
EdgeCopyConflicts(lines) ==
    {i \in 1..Len(lines) :
        \/ EdgeInsertConflicts(edges, EdgeOfCsv(lines[i], 0))
        \/ \E j \in 1..(i - 1) : EdgeKey(EdgeOfCsv(lines[j], 0)) = EdgeKey(EdgeOfCsv(lines[i], 0))}

\* what the transaction leaves in the table when COPY raised at line bad: tr.rollback()
EdgeCopyRollback(lines, bad) == edges

\* the rows of a COPY that went through, ids ascending in line order
EdgeCopyRows(lines) == {EdgeOfCsv(lines[i], edges_id_seq + i) : i \in 1..Len(lines)}

\* e.detail: "Key (u, v, type, geometry, route)=(U, V, T, <hex ewkb>, R) already exists."
EdgeUniqueDetail(key) ==
    <<"Key (u, v, type, geometry, route)=(", key[1], key[2], key[3], Wkb(key[4]), key[5], ") already exists.">>
\* (e.detail[5:-17]).split(")=(")[1].split(", ")
EdgeDetailValues(detail) == <<detail[2], detail[3], detail[4], detail[5]>> \o SplitRoute(detail[6])

(***************************************************************************)
(* EdgeService.create_many and EdgeService._conflict_resolver              *)
(***************************************************************************)
\* lines 107-112: the record of one input row; route.fillna(""), geometry as WKT text
EdgeRecord(rec, i) ==
    [idx |-> i, u |-> rec.u, v |-> rec.v, type |-> rec.type, weight |-> rec.weight,
     route |-> IF rec.route = NULL THEN "" ELSE rec.route,
     geometry |-> WktLine(rec.geometry), new_id |-> 0]

\* how many rows the join of select_many gives one edge: one per endpoint node that
\* intersects the area (nodes.id == edges.u OR nodes.id == edges.v), one if no area
EdgeJoinRows(e, geometry) ==
    IF geometry = NoGeometry THEN 1
    ELSE Cardinality({n \in nodes : n.id \in {e.u, e.v} /\ ST_Intersects(geometry, n.point)})

\* EdgeService.select_many(SelectEdgesDTO(geometry=...)): the result list, in id order
SelectManyEdges(geometry) ==
    LET ids == SortedIds({e.id : e \in edges})
        row(i) == EdgeEntity(CHOOSE e \in edges : e.id = i)
    IN  Flatten([k \in 1..Len(ids) |->
            [j \in 1..EdgeJoinRows(CHOOSE e \in edges : e.id = ids[k], geometry) |-> row(ids[k])]])

\* lines 122-127: the rows the left merge on (u, v, type, geometry, route) makes of one
\* input row; the existing geometry is str(entity.geometry)
MergeEdgeRow(rec, existing) ==
    LET hit(x) == /\ x.u = rec.u /\ x.v = rec.v /\ x.type = rec.type
                  /\ WktLine(x.geometry) = rec.geometry /\ x.route = rec.route
        hits == SelectSeq(existing, hit)
    IN  IF hits = <<>> THEN <<rec>>
        ELSE [k \in 1..Len(hits) |-> [rec EXCEPT !.new_id = hits[k].id]]

\* lines 107-158: df_edges after the pre-filter, geometry as EWKT text, index 1..n
PrefilterEdges(input, geometry) ==
    LET recs == [i \in 1..Len(input) |-> EdgeRecord(input[i], i)]
        existing == SelectManyEdges(geometry)
        merged == IF existing = <<>> THEN recs
                  ELSE Flatten([i \in 1..Len(recs) |-> MergeEdgeRow(recs[i], existing)])
    IN  [i \in 1..Len(merged) |-> [merged[i] EXCEPT !.idx = i, !.geometry = Ewkt(merged[i].geometry)]]

\* the index labels of the rows of df_edges whose new_id is NaN, in row order
EdgeIsNa(df_edges) ==
    LET rows == SelectSeq(df_edges, LAMBDA r : r.new_id = 0)
    IN  [k \in 1..Len(rows) |-> rows[k].idx]

\* the row of df_edges with index label i
Loc(df_edges, i) == CHOOSE r \in Range(df_edges) : r.idx = i

\* lines 163-164: the name of the csv file, from the hash of the pending geometries
EdgeCsvName(df_edges, df) == <<"edges", [k \in 1..Len(df) |-> Loc(df_edges, df[k]).geometry]>>

\* lines 107-168: the pre-filter, up to the first pass of the loop
EdgeCreateManyStart(p, base, input, geometry) ==
    /\ LET df_edges == PrefilterEdges(input, geometry)
           df == EdgeIsNa(df_edges)
       IN  frame' = [frame EXCEPT ![p] = [base EXCEPT
                        !.input = input, !.attempts = 0, !.dropped = 0,
                        !.df_edges = df_edges, !.df = df, !.csv = EdgeCsvName(df_edges, df)]]
    /\ pc' = [pc EXCEPT ![p] = "edge.create_many.copy"]

\* a caller awaits EdgeService.create_many(df_edges, geometry)
EdgeCreateMany_prefilter(p, input, geometry) ==
    /\ pc[p] = "idle"
    /\ calls < MaxCalls
    /\ calls' = calls + 1
    /\ EdgeCreateManyStart(p, [IdleFrame EXCEPT !.op = "edge.create_many", !.t0 = nodes, !.e0 = edges],
                           input, geometry)
    /\ UNCHANGED <<nodes, node_id_seq, edges, edges_id_seq, files, hist, graphVars, txVars>>

\* lines 175-176: res[:mask.sum()] written into the rows whose new_id is NaN
EdgeFillNewIds(df_edges, res) ==
    LET mask == EdgeIsNa(df_edges)
    IN  [i \in 1..Len(df_edges) |->
            IF df_edges[i].new_id = 0
            THEN [df_edges[i] EXCEPT !.new_id = res[CHOOSE k \in 1..Len(mask) : mask[k] = df_edges[i].idx]]
            ELSE df_edges[i]]

\* lines 169-185: one pass of the loop: to_csv, execute_copy and, when the COPY went
\* through, the ids written back, the file unlinked and the return
EdgeCreateMany_copy(p) ==
    /\ pc[p] = "edge.create_many.copy"
    /\ LET f == frame[p]
           lines == [k \in 1..Len(f.df) |-> Loc(f.df_edges, f.df[k])]
           bad == EdgeCopyConflicts(lines)
           fk == {i \in 1..Len(lines) : EdgeForeignKeyFails(EdgeOfCsv(lines[i], 0))}
           t == NextTxid(txid)
           copied == edges \cup EdgeCopyRows(lines)
           stamped == Stamp(xmin, "edges", {r.id : r \in EdgeCopyRows(lines)}, t)
           res == CopyReturning("edges", copied, stamped, t)
           g == [f EXCEPT !.attempts = f.attempts + 1, !.elines = lines]
       IN  /\ txid' = t
           /\ IF bad # {}
              THEN /\ edges' = EdgeCopyRollback(lines, Min(bad))
                   /\ xmin' = xmin
                   /\ edges_id_seq' = edges_id_seq + Min(bad)
                   /\ files' = files \cup {f.csv}
                   /\ frame' = [frame EXCEPT ![p] = [g EXCEPT
                                   !.detail = EdgeUniqueDetail(EdgeKey(EdgeOfCsv(lines[Min(bad)], 0)))]]
                   /\ pc' = [pc EXCEPT ![p] = "edge.create_many.resolve"]
              ELSE IF fk # {}
              THEN /\ edges' = EdgeCopyRollback(lines, Len(lines) + 1)
                   /\ xmin' = xmin
                   /\ edges_id_seq' = edges_id_seq + Len(lines)
                   /\ files' = files \cup {f.csv}
                   /\ Finish(p, [g EXCEPT !.err = "ForeignKeyViolationError"])
              ELSE /\ edges' = copied
                   /\ xmin' = stamped
                   /\ edges_id_seq' = edges_id_seq + Len(lines)
                   /\ IF Len(res) < Len(EdgeIsNa(f.df_edges))
                      THEN /\ files' = files \cup {f.csv}
                           /\ Finish(p, [g EXCEPT !.res = res, !.err = "ValueError"])
                      ELSE /\ files' = files \ {f.csv}
                           /\ Finish(p, [g EXCEPT !.res = res,
                                                  !.df_edges = EdgeFillNewIds(f.df_edges, res),
                                                  !.uploaded = Len(res)])
    /\ UNCHANGED <<nodes, node_id_seq, calls, hist, graphVars>>

\* select_one_by_unique_critique(u, v, type, geometry, route): the ids the statement returns
SelectEdgesByUniqueCritique(u, v, type, wkt, route) ==
    {e.id : e \in {x \in edges : /\ x.u = u /\ x.v = v /\ x.type = type
                                 /\ ST_OrderingEquals(ST_GeomFromText(wkt), x.geometry)
                                 /\ x.route = route}}

\* lines 179-181 and 187-217: the conflicting row located in df_edges, its id looked up
\* (the row leaves df_edges when the lookup raises 404), the row dropped from df
EdgeCreateMany_resolve(p) ==
    /\ pc[p] = "edge.create_many.resolve"
    /\ LET f == frame[p]
           values == EdgeDetailValues(f.detail)
           recovered_geometry == WktLine(from_wkb(values[4]))
           hits == SelectSeq(f.df_edges, LAMBDA r :
                        /\ r.u = values[1] /\ r.v = values[2] /\ r.type = values[3]
                        /\ r.geometry = Ewkt(recovered_geometry)
                        /\ r.route = values[5])
           found == hits[1].idx
           ids == SelectEdgesByUniqueCritique(values[1], values[2], values[3], recovered_geometry, values[5])
           looked == IF ids = {}
                     THEN SelectSeq(f.df_edges, LAMBDA r : r.idx # found)
                     ELSE [i \in 1..Len(f.df_edges) |->
                            IF f.df_edges[i].idx = found
                            THEN [f.df_edges[i] EXCEPT !.new_id = CHOOSE i2 \in ids : TRUE]
                            ELSE f.df_edges[i]]
       IN  IF hits = <<>>
           THEN Finish(p, [f EXCEPT !.err = "IndexError"])
           ELSE IF Cardinality(ids) > 1
           THEN Finish(p, [f EXCEPT !.err = "MultipleResultsFound"])
           ELSE IF found \notin Range(f.df)
           THEN Finish(p, [f EXCEPT !.err = "KeyError", !.df_edges = looked])
           ELSE /\ frame' = [frame EXCEPT ![p] = [f EXCEPT
                                !.df_edges = looked,
                                !.df = SelectSeq(f.df, LAMBDA i : i # found),
                                !.dropped = f.dropped + 1]]
                /\ pc' = [pc EXCEPT ![p] = "edge.create_many.copy"]
    /\ UNCHANGED <<nodes, node_id_seq, edges, edges_id_seq, files, calls, hist, graphVars, txVars>>

\* `if not result: raise HTTPException(404, detail)`: the frame of a coroutine that ends
\* in the exception
ReturnNone(f, detail) == f
HTTPException404(f, detail) == [f EXCEPT !.err = "404 " \o detail]

(***************************************************************************)
(* GraphService.create and GraphService.select_one                         *)
(***************************************************************************)
GraphTypeEnum == {"ROAD", "WATER"}

\* select_one(id_or_name): the rows the statement returns, by id if the argument is
\* numeric, by name otherwise
SelectGraphs(id_or_name) ==
    IF isnumeric(id_or_name) THEN {g \in graphs : g.id = int(id_or_name)}
    ELSE {g \in graphs : g.name = id_or_name}

\* lines 63-73: the numeric check and the lookup of the name (a 404 of select_one is
\* caught, nothing else is)
GraphCreate_check(p, dto) ==
    /\ pc[p] = "idle"
    /\ calls < MaxCalls
    /\ calls' = calls + 1
    /\ LET f == [IdleFrame EXCEPT !.op = "graph.create", !.name = dto.name, !.gtype = dto.type,
                                  !.g0 = graphs, !.l0 = graph_edges, !.t0 = nodes, !.e0 = edges]
           rows == SelectGraphs(dto.name)
       IN  IF isnumeric(dto.name)
           THEN Finish(p, [f EXCEPT !.err = "400 name can't be numeric"])
           ELSE IF Cardinality(rows) > 1
           THEN Finish(p, [f EXCEPT !.err = "MultipleResultsFound"])
           ELSE IF rows # {}
           THEN Finish(p, [f EXCEPT !.err = "409 graph with such name already exists"])
           ELSE /\ pc' = [pc EXCEPT ![p] = "graph.create.insert"]
                /\ frame' = [frame EXCEPT ![p] = f]
    /\ UNCHANGED <<nodes, node_id_seq, edges, edges_id_seq, files, hist, graphVars, txVars>>

\* lines 75-90: INSERT of (name, type, properties) and commit; table graphs has no
\* unique constraint
GraphCreate_insert(p) ==
    /\ pc[p] = "graph.create.insert"
    /\ LET row == [id |-> graphs_id_seq + 1, name |-> frame[p].name, type |-> frame[p].gtype]
       IN  /\ graphs_id_seq' = graphs_id_seq + 1
           /\ txid' = NextTxid(txid)
           /\ graphs' = graphs \cup {row}
           /\ xmin' = Stamp(xmin, "graphs", {row.id}, txid')
           /\ Finish(p, [frame[p] EXCEPT !.out_graph = row.id])
    /\ UNCHANGED <<nodes, node_id_seq, edges, edges_id_seq, files, calls, hist,
                   graph_edges, graph_edges_id_seq, asm, cwd>>

(***************************************************************************)
(* GraphService.add_edge                                                   *)
(***************************************************************************)
\* the columns of the unique constraint graph_edges_multiunique
RelationshipKey(r) == <<r.graph, r.edge>>

\* line 105: graph = await self.select_one(str(dto.graph)), in a run of at most
\* limit writing calls
\* add_edge without the graph lookup of line 105: the edge is created first
GraphAddEdgeUnchecked(p, dto, graph, limit) ==
    /\ pc[p] = "idle"
    /\ calls < limit
    /\ calls' = calls + 1
    /\ pc' = [pc EXCEPT ![p] = "graph.add_edge.create"]
    /\ frame' = [frame EXCEPT ![p] = [IdleFrame EXCEPT !.op = "graph.add_edge", !.edto = dto, !.graph = graph,
                                                       !.g0 = graphs, !.l0 = graph_edges, !.t0 = nodes,
                                                       !.e0 = edges, !.out_graph = graph]]
    /\ UNCHANGED <<nodes, node_id_seq, edges, edges_id_seq, files, hist, graphVars, txVars>>

GraphAddEdgeStart(p, dto, graph, limit) ==
    /\ pc[p] = "idle"
    /\ calls < limit
    /\ calls' = calls + 1
    /\ LET f == [IdleFrame EXCEPT !.op = "graph.add_edge", !.edto = dto, !.graph = graph,
                                  !.g0 = graphs, !.l0 = graph_edges, !.t0 = nodes, !.e0 = edges]
           rows == SelectGraphs(Str(graph))
       IN  IF Cardinality(rows) > 1
           THEN Finish(p, [f EXCEPT !.err = "MultipleResultsFound"])
           ELSE IF rows = {}
           THEN Finish(p, HTTPException404(f, "GRAPH_NOT_FOUND"))
           ELSE /\ pc' = [pc EXCEPT ![p] = "graph.add_edge.create"]
                /\ frame' = [frame EXCEPT ![p] = [f EXCEPT !.out_graph = (CHOOSE g \in rows : TRUE).id]]
    /\ UNCHANGED <<nodes, node_id_seq, edges, edges_id_seq, files, hist, graphVars, txVars>>

GraphAddEdge_select_one(p, dto, graph) == GraphAddEdgeStart(p, dto, graph, MaxCalls)

\* line 106: edge = await self.edge_service.create(dto), up to its dedup read
GraphAddEdge_create(p) ==
    /\ pc[p] = "graph.add_edge.create"
    /\ EdgeCreateMatch(p, [frame[p] EXCEPT !.caller = "graph.add_edge.link"], frame[p].edto)
    /\ UNCHANGED <<nodes, node_id_seq, edges, edges_id_seq, files, calls, hist, graphVars, txVars>>

SelectNoRelationship(graph_id, edge_id) == {}

\* select_one_relationship(graph_id, edge_id): the rows the statement returns
SelectOneRelationship(graph_id, edge_id) ==
    {r \in graph_edges : r.graph = graph_id /\ r.edge = edge_id}

\* lines 107-110: select_one_relationship(graph.id, edge.id), one_or_none() on its result
GraphAddEdge_link(p) ==
    /\ pc[p] = "graph.add_edge.link"
    /\ LET f == frame[p]
           rows == SelectOneRelationship(f.out_graph, f.edge.id)
       IN  IF Cardinality(rows) > 1
           THEN Finish(p, [f EXCEPT !.err = "MultipleResultsFound"])
           ELSE IF rows # {}
           THEN Finish(p, [f EXCEPT !.link = (CHOOSE r \in rows : TRUE).id])
           ELSE /\ pc' = [pc EXCEPT ![p] = "graph.add_edge.insert"]
                /\ frame' = [frame EXCEPT ![p] = f]
    /\ UNCHANGED <<nodes, node_id_seq, edges, edges_id_seq, files, calls, hist, graphVars, txVars>>

\* INSERT INTO graph_edges: does graph_edges_multiunique reject the row
RelationshipInsertConflicts(row) == \E r \in graph_edges : RelationshipKey(r) = RelationshipKey(row)

\* does a foreign key of the row (graph -> graphs.id, edge -> edges.id) point at no row
RelationshipForeignKeyFails(row) ==
    row.graph \notin {g.id : g \in graphs} \/ row.edge \notin {e.id : e \in edges}

\* lines 112-126: INSERT of (graph, edge) and commit
GraphAddEdge_insert(p) ==
    /\ pc[p] = "graph.add_edge.insert"
    /\ LET f == frame[p]
           row == [id |-> graph_edges_id_seq + 1, graph |-> f.out_graph, edge |-> f.edge.id]
       IN  /\ graph_edges_id_seq' = graph_edges_id_seq + 1
           /\ txid' = NextTxid(txid)
           /\ IF RelationshipInsertConflicts(row)
              THEN /\ Finish(p, [f EXCEPT !.err = "UniqueViolationError"])
                   /\ UNCHANGED <<graph_edges, xmin>>
              ELSE IF RelationshipForeignKeyFails(row)
              THEN /\ Finish(p, [f EXCEPT !.err = "ForeignKeyViolationError"])
                   /\ UNCHANGED <<graph_edges, xmin>>
              ELSE /\ graph_edges' = graph_edges \cup {row}
                   /\ xmin' = Stamp(xmin, "graph_edges", {row.id}, txid')
                   /\ Finish(p, [f EXCEPT !.link = row.id])
    /\ UNCHANGED <<nodes, node_id_seq, edges, edges_id_seq, files, calls, hist,
                   graphs, graphs_id_seq, asm, cwd>>

(***************************************************************************)
(* GraphService.create_many: the bulk upload of relationships              *)
(***************************************************************************)
\* line 140: DataFrame.from_dict({"graph": graph, "edge": edges}), index labels 1..n
RelationshipFrame(graph, edge_ids) ==
    [i \in 1..Len(edge_ids) |-> [idx |-> i, graph |-> graph, edge |-> edge_ids[i], new_id |-> 0]]

\* select_many_edges_by_graph_and_geometry(graph, geometry): the edge ids of the
\* relationships of the graph whose edge has both end nodes inside the area
SelectManyEdgesByGraphAndGeometry(graph, geometry) ==
    {r.edge : r \in {x \in graph_edges :
        /\ x.graph = graph
        /\ \E e \in edges, node_u \in nodes, node_v \in nodes :
              /\ e.id = x.edge /\ node_u.id = e.u /\ node_v.id = e.v
              /\ ST_Intersects(geometry, node_u.point)
              /\ ST_Intersects(geometry, node_v.point)}}

\* lines 146-147: the name of the csv file, from the hash of the edge column alone
RelationshipCsvName(df) == <<"csv", [k \in 1..Len(df) |-> df[k].edge]>>

\* line 152: df.to_csv(...), one line "graph&edge" per row
RelationshipCsvLines(df) == [k \in 1..Len(df) |-> [graph |-> df[k].graph, edge |-> df[k].edge]]

\* the working directory after a file was written, and after it was unlinked
WriteFile(dir, name, lines) == [n \in DOMAIN dir \cup {name} |-> IF n = name THEN lines ELSE dir[n]]
UnlinkFile(dir, name) == [n \in DOMAIN dir \ {name} |-> dir[n]]

\* the detail of the UniqueViolationError of graph_edges_multiunique, and lines 177-178:
\* e.detail[5:-17].split(")=(")[1].split(", ") read back as integers
RelationshipUniqueDetail(key) ==
    <<"Key (", "graph, edge", ")=(", Str(key[1]), ", ", Str(key[2]), ") already exists.">>
RelationshipDetailValues(detail) == <<int(detail[4]), int(detail[6])>>

\* the relationship rows a COPY of the lines makes, ids from graph_edges_id_seq
RelationshipCopyRows(lines) ==
    {[id |-> graph_edges_id_seq + k, graph |-> lines[k].graph, edge |-> lines[k].edge] : k \in 1..Len(lines)}

\* the lines graph_edges_multiunique rejects: against a stored row or an earlier line
RelationshipCopyConflicts(lines) ==
    {i \in 1..Len(lines) :
        \/ RelationshipInsertConflicts(lines[i])
        \/ \E j \in 1..(i - 1) : RelationshipKey(lines[j]) = RelationshipKey(lines[i])}

\* lines 166-186: _conflict_resolver, the first row of df with the detail's graph and
\* edge dropped (iloc[0] raises IndexError when no row has them)
ConflictResolverHits(detail, df) ==
    LET values == RelationshipDetailValues(detail)
    IN  SelectSeq(df, LAMBDA r : r.graph = values[1] /\ r.edge = values[2])

ConflictResolver(detail, df) ==
    LET found == ConflictResolverHits(detail, df)[1].idx
    IN  SelectSeq(df, LAMBDA r : r.idx # found)

\* lines 140-150: the frame, the scope filter and the file name
GraphCreateMany_start(p, graph, edge_ids, geometry) ==
    /\ pc[p] = "idle"
    /\ calls < MaxCalls + MaxLinks
    /\ calls' = calls + 1
    /\ LET frame0 == RelationshipFrame(graph, edge_ids)
           existing_edges_ids == SelectManyEdgesByGraphAndGeometry(graph, geometry)
           df == IF geometry # NoGeometry
                 THEN SelectSeq(frame0, LAMBDA r : r.edge \notin existing_edges_ids)
                 ELSE frame0
       IN  /\ frame' = [frame EXCEPT ![p] = [IdleFrame EXCEPT
                           !.op = "graph.create_many", !.graph = graph, !.input = edge_ids,
                           !.total_geometry = geometry, !.df = df, !.csv = RelationshipCsvName(df)]]
           /\ pc' = [pc EXCEPT ![p] = "graph.create_many.to_csv"]
    /\ UNCHANGED <<nodes, node_id_seq, edges, edges_id_seq, files, hist, graphVars, txVars>>

\* line 152: the pending rows written to the file, up to the first await of execute_copy
GraphCreateMany_to_csv(p) ==
    /\ pc[p] = "graph.create_many.to_csv"
    /\ cwd' = WriteFile(cwd, frame[p].csv, RelationshipCsvLines(frame[p].df))
    /\ pc' = [pc EXCEPT ![p] = "graph.create_many.copy"]
    /\ UNCHANGED <<nodes, node_id_seq, edges, edges_id_seq, files, calls, hist, frame,
                   graphs, graphs_id_seq, graph_edges, graph_edges_id_seq, asm, txVars>>

\* lines 153-160: execute_copy("graph_edges", csv_name, columns) reads the file as it is
\* now; on UniqueViolationError the resolver drops a row and the loop goes round
GraphCreateMany_copy(p) ==
    /\ pc[p] = "graph.create_many.copy"
    /\ LET f == frame[p]
           lines == IF f.csv \in DOMAIN cwd THEN cwd[f.csv] ELSE <<>>
           bad == RelationshipCopyConflicts(lines)
           fk == {i \in 1..Len(lines) : RelationshipForeignKeyFails(lines[i])}
           t == NextTxid(txid)
           rows == RelationshipCopyRows(lines)
           stamped == Stamp(xmin, "graph_edges", {r.id : r \in rows}, t)
           res == CopyReturning("graph_edges", graph_edges \cup rows, stamped, t)
           g == [f EXCEPT !.attempts = f.attempts + 1, !.lines = lines]
       IN  IF f.csv \notin DOMAIN cwd
           THEN /\ Finish(p, [g EXCEPT !.err = "FileNotFoundError"])
                /\ UNCHANGED <<graph_edges, graph_edges_id_seq, txVars>>
           ELSE /\ txid' = t
                /\ IF bad # {}
                   THEN LET detail == RelationshipUniqueDetail(RelationshipKey(lines[Min(bad)]))
                        IN  /\ graph_edges_id_seq' = graph_edges_id_seq + Min(bad)
                            /\ UNCHANGED <<graph_edges, xmin>>
                            /\ IF ConflictResolverHits(detail, f.df) = <<>>
                               THEN Finish(p, [g EXCEPT !.detail = detail, !.err = "IndexError"])
                               ELSE /\ frame' = [frame EXCEPT ![p] = [g EXCEPT
                                                    !.detail = detail,
                                                    !.df = ConflictResolver(detail, f.df),
                                                    !.dropped = f.dropped + 1]]
                                    /\ pc' = [pc EXCEPT ![p] = "graph.create_many.to_csv"]
                   ELSE IF fk # {}
                   THEN /\ graph_edges_id_seq' = graph_edges_id_seq + Len(lines)
                        /\ UNCHANGED <<graph_edges, xmin>>
                        /\ Finish(p, [g EXCEPT !.err = "ForeignKeyViolationError"])
                   ELSE /\ graph_edges_id_seq' = graph_edges_id_seq + Len(lines)
                        /\ graph_edges' = graph_edges \cup rows
                        /\ xmin' = stamped
                        /\ frame' = [frame EXCEPT ![p] = [g EXCEPT !.res = res]]
                        /\ pc' = [pc EXCEPT ![p] = "graph.create_many.unlink"]
    /\ UNCHANGED <<nodes, node_id_seq, edges, edges_id_seq, files, calls, hist,
                   graphs, graphs_id_seq, asm, cwd>>

\* lines 162-164: the file unlinked, df["new_id"] = res (ValueError when the lengths
\* differ) and the return of (df, len(res))
GraphCreateMany_unlink(p) ==
    /\ pc[p] = "graph.create_many.unlink"
    /\ LET f == frame[p]
       IN  IF f.csv \notin DOMAIN cwd
           THEN /\ Finish(p, [f EXCEPT !.err = "FileNotFoundError"])
                /\ cwd' = cwd
           ELSE /\ cwd' = UnlinkFile(cwd, f.csv)
                /\ IF Len(f.res) # Len(f.df)
                   THEN Finish(p, [f EXCEPT !.err = "ValueError"])
                   ELSE Finish(p, [f EXCEPT
                            !.df = [k \in 1..Len(f.df) |-> [f.df[k] EXCEPT !.new_id = f.res[k]]],
                            !.uploaded = Len(f.res)])
    /\ UNCHANGED <<nodes, node_id_seq, edges, edges_id_seq, files, calls, hist,
                   graphs, graphs_id_seq, graph_edges, graph_edges_id_seq, asm, txVars>>

(***************************************************************************)
(* NodeService.delete_node and EdgeService.delete_edge                     *)
(***************************************************************************)
\* DELETE FROM nodes WHERE id = node_id inside its transaction: the node row, the edges
\* that reference it (ondelete CASCADE) and the relationships of those edges
DeleteNodeStatement(node_id) ==
    LET gone == {e \in edges : e.u = node_id \/ e.v = node_id}
    IN  [nodes |-> {n \in nodes : n.id # node_id},
         edges |-> edges \ gone,
         graph_edges |-> {r \in graph_edges : r.edge \notin {e.id : e \in gone}}]

\* DELETE FROM edges WHERE id = edge_id inside its transaction: the edge row and its
\* relationships (ondelete CASCADE)
DeleteEdgeStatement(edge_id) ==
    [nodes |-> nodes,
     edges |-> {e \in edges : e.id # edge_id},
     graph_edges |-> {r \in graph_edges : r.edge # edge_id}]

\* DatabaseModule.execute_query: the statement runs in a session that is closed
\* without a commit, which rolls its transaction back
execute_query(committed, statement) == committed

\* NodeService.delete_node(node_id)
NodeDelete(p, node_id) ==
    /\ pc[p] = "idle"
    /\ calls < MaxCalls
    /\ calls' = calls + 1
    /\ LET statement == DeleteNodeStatement(node_id)
       IN  /\ nodes' = execute_query(nodes, statement.nodes)
           /\ edges' = execute_query(edges, statement.edges)
           /\ graph_edges' = execute_query(graph_edges, statement.graph_edges)
    /\ txid' = IF DeleteNodeStatement(node_id).nodes # nodes THEN NextTxid(txid) ELSE txid
    /\ Finish(p, [IdleFrame EXCEPT !.op = "node.delete_node", !.found = node_id,
                                   !.g0 = graphs, !.l0 = graph_edges, !.t0 = nodes, !.e0 = edges])
    /\ UNCHANGED <<node_id_seq, edges_id_seq, files, hist, graphs, graphs_id_seq, graph_edges_id_seq,
                   asm, cwd, xmin>>

\* EdgeService.delete_edge(edge_id)
EdgeDelete(p, edge_id) ==
    /\ pc[p] = "idle"
    /\ calls < MaxCalls
    /\ calls' = calls + 1
    /\ LET statement == DeleteEdgeStatement(edge_id)
       IN  /\ nodes' = execute_query(nodes, statement.nodes)
           /\ edges' = execute_query(edges, statement.edges)
           /\ graph_edges' = execute_query(graph_edges, statement.graph_edges)
    /\ txid' = IF DeleteEdgeStatement(edge_id).edges # edges THEN NextTxid(txid) ELSE txid
    /\ Finish(p, [IdleFrame EXCEPT !.op = "edge.delete_edge", !.found = edge_id,
                                   !.g0 = graphs, !.l0 = graph_edges, !.t0 = nodes, !.e0 = edges])
    /\ UNCHANGED <<node_id_seq, edges_id_seq, files, hist, graphs, graphs_id_seq, graph_edges_id_seq,
                   asm, cwd, xmin>>

(***************************************************************************)
(* GraphService.bulk_graph_upload                                          *)
(***************************************************************************)
\* lines 203 and 211: x[:min(200, len(x))].replace('"', '') on a route of the model
CleanRoute(r) == IF r = "r\"1" THEN "r1" ELSE r

\* lines 207-208: box(*gdf_edges.total_bounds), the bounding box of every edge geometry
TotalBounds(bedges) ==
    LET pts == UNION {Range(bedges[i].geometry) : i \in 1..Len(bedges)}
    IN  Min(pts)..Max(pts)

\* line 216: df_nodes["new_id"].astype(int).to_dict(), keyed by the index 0..n-1 of the
\* frame NodeService.create_many returned
NewNodesId(df_nodes) == [k \in 0..(Len(df_nodes) - 1) |-> df_nodes[k + 1].new_id]

\* lines 220-221: Series.map(new_nodes_id); a key the dict lacks gives NaN (0)
MapNode(new_nodes_id, k) == IF k \in DOMAIN new_nodes_id THEN new_nodes_id[k] ELSE 0

\* the columns of the frame EdgeService.create_many returns (CreateEdgeDTO without
\* graph, and new_id)
EdgeFrameColumns ==
    <<"u", "v", "type", "weight", "weight_type", "level", "speed", "route", "properties", "geometry", "new_id">>

\* lines 200-213: the two frames built, the routes cleaned, the bounding box taken and
\* the node stage entered.  DataFrame(data=[]) has no column "route" (KeyError), and a
\* route of None has no len() (TypeError)
GraphBulk_start(p, bnodes, bedges, graph) ==
    /\ pc[p] = "idle"
    /\ calls < MaxCalls
    /\ calls' = calls + 1
    /\ LET f == [IdleFrame EXCEPT !.op = "graph.bulk_graph_upload", !.graph = graph,
                                  !.bnodes = bnodes, !.bedges = bedges,
                                  !.t0 = nodes, !.e0 = edges, !.g0 = graphs, !.l0 = graph_edges]
           df_nodes == [i \in 1..Len(bnodes) |-> [bnodes[i] EXCEPT !.route = CleanRoute(bnodes[i].route)]]
       IN  IF bedges = <<>>
           THEN Finish(p, [f EXCEPT !.err = "KeyError"])
           ELSE IF \E i \in 1..Len(bedges) : bedges[i].route = NULL
           THEN Finish(p, [f EXCEPT !.err = "TypeError"])
           ELSE IF bnodes = <<>>
           THEN Finish(p, [f EXCEPT !.err = "KeyError"])
           ELSE IF \E i \in 1..Len(bnodes) : bnodes[i].route = NULL
           THEN Finish(p, [f EXCEPT !.err = "TypeError"])
           ELSE NodeCreateManyStart(p, [f EXCEPT !.caller = "graph.bulk.sleep", !.stage = "nodes",
                                                 !.total_geometry = TotalBounds(bedges)],
                                    df_nodes, TotalBounds(bedges))
    /\ UNCHANGED <<nodes, node_id_seq, files, hist, edges, edges_id_seq, graphVars, txVars>>

\* lines 213-218: the node stage returned (df_nodes, nodes_uploaded); the remap table
\* is built and the coroutine sleeps
GraphBulk_sleep(p) ==
    /\ pc[p] = "graph.bulk.sleep"
    /\ frame' = [frame EXCEPT ![p] = [frame[p] EXCEPT
                    !.new_nodes_id = NewNodesId(frame[p].df_nodes),
                    !.report = [frame[p].report EXCEPT !.nodes = frame[p].uploaded],
                    !.stage = "sleep"]]
    /\ pc' = [pc EXCEPT ![p] = "graph.bulk.edges"]
    /\ UNCHANGED <<nodes, node_id_seq, files, calls, hist, edges, edges_id_seq, graphVars, txVars>>

\* lines 219-222: u and v mapped through the remap table, the edge stage entered
GraphBulk_edges(p) ==
    /\ pc[p] = "graph.bulk.edges"
    /\ LET f == frame[p]
           df_edges == [i \in 1..Len(f.bedges) |->
                           [u |-> MapNode(f.new_nodes_id, f.bedges[i].u),
                            v |-> MapNode(f.new_nodes_id, f.bedges[i].v),
                            type |-> f.bedges[i].type, weight |-> f.bedges[i].weight,
                            route |-> CleanRoute(f.bedges[i].route),
                            geometry |-> f.bedges[i].geometry]]
       IN  EdgeCreateManyStart(p, [f EXCEPT !.caller = "graph.bulk.unpack", !.stage = "edges"],
                               df_edges, f.total_geometry)
    /\ UNCHANGED <<nodes, node_id_seq, files, calls, hist, edges, edges_id_seq, graphVars, txVars>>

\* line 222: the frame EdgeService.create_many returned is unpacked into the two names
\* df_edges, edges_uploaded: iterating a DataFrame gives its column labels, and any
\* number of them but two is a ValueError
GraphBulk_unpack(p) ==
    /\ pc[p] = "graph.bulk.unpack"
    /\ IF Len(EdgeFrameColumns) # 2
       THEN Finish(p, [frame[p] EXCEPT !.err = "ValueError"])
       ELSE /\ pc' = [pc EXCEPT ![p] = "graph.bulk.create_many"]
            /\ frame' = [frame EXCEPT ![p] = [frame[p] EXCEPT
                            !.report = [frame[p].report EXCEPT !.edges = EdgeFrameColumns[2]],
                            !.stage = "relationships"]]
    /\ UNCHANGED <<nodes, node_id_seq, files, calls, hist, edges, edges_id_seq, graphVars, txVars>>

(***************************************************************************)
(* The lookups by id or name: NodeService.select_one, EdgeService.select_one *)
(* and GraphService.select_one                                             *)
(***************************************************************************)

\* a caller awaits NodeService.select_one(_id): one statement, one_or_none() on its result
NodeSelectOne(p, _id) ==
    /\ pc[p] = "idle"
    /\ LET f == [IdleFrame EXCEPT !.op = "node.select_one", !.found = _id, !.attempts = 1,
                                  !.g0 = graphs, !.l0 = graph_edges, !.t0 = nodes, !.e0 = edges]
           rows == {n \in nodes : n.id = _id}
       IN  IF rows = {}
           THEN Finish(p, HTTPException404(f, "NODE_NOT_FOUND"))
           ELSE Finish(p, [f EXCEPT !.ret = NodeEntity(CHOOSE n \in rows : TRUE)])
    /\ UNCHANGED <<nodes, node_id_seq, edges, edges_id_seq, files, calls, hist, graphVars, txVars>>

\* a caller awaits EdgeService.select_one(_id)
EdgeSelectOne(p, _id) ==
    /\ pc[p] = "idle"
    /\ LET f == [IdleFrame EXCEPT !.op = "edge.select_one", !.found = _id, !.attempts = 1,
                                  !.g0 = graphs, !.l0 = graph_edges, !.t0 = nodes, !.e0 = edges]
           rows == {e \in edges : e.id = _id}
       IN  IF rows = {}
           THEN Finish(p, HTTPException404(f, "EDGE_NOT_FOUND"))
           ELSE Finish(p, [f EXCEPT !.edge = EdgeEntity(CHOOSE e \in rows : TRUE)])
    /\ UNCHANGED <<nodes, node_id_seq, edges, edges_id_seq, files, calls, hist, graphVars, txVars>>

\* a caller awaits GraphService.select_one(id_or_name)
GraphSelectOne(p, id_or_name) ==
    /\ pc[p] = "idle"
    /\ LET f == [IdleFrame EXCEPT !.op = "graph.select_one", !.name = id_or_name, !.attempts = 1,
                                  !.g0 = graphs, !.l0 = graph_edges, !.t0 = nodes, !.e0 = edges]
           rows == SelectGraphs(id_or_name)
       IN  IF Cardinality(rows) > 1
           THEN Finish(p, [f EXCEPT !.err = "MultipleResultsFound"])
           ELSE IF rows = {}
           THEN Finish(p, HTTPException404(f, "GRAPH_NOT_FOUND"))
           ELSE Finish(p, [f EXCEPT !.out_graph = (CHOOSE g \in rows : TRUE).id])
    /\ UNCHANGED <<nodes, node_id_seq, edges, edges_id_seq, files, calls, hist, graphVars, txVars>>

(***************************************************************************)
(* GraphService.select_one_with_edges and GraphService.build_nx_graph      *)
(***************************************************************************)
\* SelectGraphWithEdgesDTO.type
SelectTypes == {"walk", "drive", "intermodal", "water"}

\* lines 418-429: the edge types and node types a selector type asks for, a list of
\* enum members for "intermodal" and one member otherwise
SelectedEdgeTypes(type) ==
    IF type = "intermodal" THEN [list |-> TRUE, types |-> EdgeTypeEnum \ {"WATERCHANNEL"}]
    ELSE IF type = "water" THEN [list |-> FALSE, types |-> {"WATERCHANNEL"}]
    ELSE IF type = "drive" THEN [list |-> FALSE, types |-> {"DRIVE"}]
    ELSE [list |-> FALSE, types |-> {"WALK"}]
SelectedNodeTypes(type) ==
    IF type = "intermodal" THEN [list |-> TRUE, types |-> NodeTypeEnum]
    ELSE IF type = "water" THEN [list |-> FALSE, types |-> {"WALK"}]
    ELSE IF type = "drive" THEN [list |-> FALSE, types |-> {"DRIVE"}]
    ELSE [list |-> FALSE, types |-> {"WALK"}]

\* SelectEdgesDTO.type is Optional[EdgeTypeEnum]: a list does not validate
SelectEdgesDTOValid(selected) == ~selected.list

SelectEdgeRowsAnyType(e, graph, selected, geometry) ==
    (IF graph = 0 THEN 1 ELSE Cardinality({r \in graph_edges : r.graph = graph /\ r.edge = e.id}))
        * EdgeJoinRows(e, geometry)

\* EdgeService.select_many(graph, type, geometry): how many rows the joins give edge e.
\* One per relationship (graph_edges.graph = graph) if a graph is given, times one per
\* endpoint node inside the area if a geometry is given
SelectEdgeRows(e, graph, selected, geometry) ==
    IF e.type \notin selected.types THEN 0
    ELSE (IF graph = 0 THEN 1 ELSE Cardinality({r \in graph_edges : r.graph = graph /\ r.edge = e.id}))
            * EdgeJoinRows(e, geometry)

\* the rows of EdgeService.select_many, here listed by id
SelectEdges(graph, selected, geometry) ==
    LET ids == SortedIds({e.id : e \in edges})
        at(i) == CHOOSE e \in edges : e.id = i
    IN  Flatten([k \in 1..Len(ids) |->
            [j \in 1..SelectEdgeRows(at(ids[k]), graph, selected, geometry) |-> EdgeEntity(at(ids[k]))]])

\* NodeService.select_many(graph, type, geometry): SELECT DISTINCT over nodes joined to
\* the edges they end and to the relationships of the graph, here listed by id
SelectNodes(graph, selected, geometry) ==
    LET hit(n) == /\ graph # 0 => \E e \in edges : /\ n.id \in {e.u, e.v}
                                                   /\ \E r \in graph_edges : r.graph = graph /\ r.edge = e.id
                  /\ n.type \in selected.types
                  /\ geometry # NoGeometry => ST_Intersects(geometry, n.point)
        ids == SortedIds({n.id : n \in {m \in nodes : hit(m)}})
    IN  [k \in 1..Len(ids) |-> NodeEntity(CHOOSE n \in nodes : n.id = ids[k])]

\* neither statement has an ORDER BY: the store may return the rows in any order
Orders(rows) == {[i \in 1..Len(rows) |-> rows[pi[i]]] : pi \in Permutations(1..Len(rows))}

\* lines 414-434: the graph looked up if the selector names one, the types chosen and
\* SelectEdgesDTO built
SelectWithEdgesStart(p, base, dto) ==
    LET f == [base EXCEPT !.sel = dto, !.tx0 = txid, !.attempts = IF dto.id_or_name = NoName THEN 0 ELSE 1,
                          !.selected_edge_types = SelectedEdgeTypes(dto.type),
                          !.selected_node_types = SelectedNodeTypes(dto.type)]
        rows == IF dto.id_or_name = NoName THEN {} ELSE SelectGraphs(dto.id_or_name)
    IN  IF dto.id_or_name # NoName /\ Cardinality(rows) > 1
        THEN Finish(p, [f EXCEPT !.err = "MultipleResultsFound"])
        ELSE IF dto.id_or_name # NoName /\ rows = {}
        THEN Finish(p, HTTPException404(f, "GRAPH_NOT_FOUND"))
        ELSE IF ~SelectEdgesDTOValid(f.selected_edge_types)
        THEN Finish(p, [f EXCEPT !.err = "ValidationError",
                                 !.out_graph = IF rows = {} THEN 0 ELSE (CHOOSE g \in rows : TRUE).id])
        ELSE /\ pc' = [pc EXCEPT ![p] = "graph.select_one_with_edges.edges"]
             /\ frame' = [frame EXCEPT ![p] = [f EXCEPT
                             !.out_graph = IF rows = {} THEN 0 ELSE (CHOOSE g \in rows : TRUE).id]]

\* a caller awaits select_one_with_edges(dto)
GraphSelectWithEdges_start(p, dto) ==
    /\ pc[p] = "idle"
    /\ SelectWithEdgesStart(p, [IdleFrame EXCEPT !.op = "graph.select_one_with_edges",
                                   !.g0 = graphs, !.l0 = graph_edges, !.t0 = nodes, !.e0 = edges], dto)
    /\ UNCHANGED <<nodes, node_id_seq, edges, edges_id_seq, files, calls, hist, graphVars, txVars>>

\* lines 430-434: edges = await self.edge_service.select_many(...)
GraphSelectWithEdges_edges(p) ==
    /\ pc[p] = "graph.select_one_with_edges.edges"
    /\ \E out \in Orders(SelectEdges(frame[p].out_graph, frame[p].selected_edge_types, frame[p].sel.geometry)) :
            frame' = [frame EXCEPT ![p] = [frame[p] EXCEPT !.out_edges = out]]
    /\ pc' = [pc EXCEPT ![p] = "graph.select_one_with_edges.nodes"]
    /\ UNCHANGED <<nodes, node_id_seq, edges, edges_id_seq, files, calls, hist, graphVars, txVars>>

\* lines 435-441: nodes = await self.node_service.select_many(...), and the return
GraphSelectWithEdges_nodes(p) ==
    /\ pc[p] = "graph.select_one_with_edges.nodes"
    /\ \E out \in Orders(SelectNodes(frame[p].out_graph, frame[p].selected_node_types, frame[p].sel.geometry)) :
            Finish(p, [frame[p] EXCEPT !.out_nodes = out])
    /\ UNCHANGED <<nodes, node_id_seq, edges, edges_id_seq, files, calls, hist, graphVars, txVars>>

\* lines 281-290: the key of each returned edge: how many edges with its (u, v) came
\* before it in the list
AssignKeysUnordered(out_edges) ==
    [i \in 1..Len(out_edges) |->
        Cardinality({j \in 1..(i - 1) : {out_edges[j].u, out_edges[j].v} = {out_edges[i].u, out_edges[i].v}})]
AssignKeys(out_edges) ==
    [i \in 1..Len(out_edges) |->
        Cardinality({j \in 1..(i - 1) : out_edges[j].u = out_edges[i].u /\ out_edges[j].v = out_edges[i].v})]

\* line 272: a caller awaits build_nx_graph(dto), which awaits select_one_with_edges(dto)
GraphBuild_start(p, dto) ==
    /\ pc[p] = "idle"
    /\ SelectWithEdgesStart(p, [IdleFrame EXCEPT !.op = "graph.build_nx_graph", !.caller = "graph.build.assemble",
                                   !.g0 = graphs, !.l0 = graph_edges, !.t0 = nodes, !.e0 = edges], dto)
    /\ UNCHANGED <<nodes, node_id_seq, edges, edges_id_seq, files, calls, hist, graphVars, txVars>>

\* lines 275-313: the two frames built (nodes[0] and edges[0] raise IndexError on an
\* empty list) and the keys assigned
GraphBuild_assemble(p) ==
    /\ pc[p] = "graph.build.assemble"
    /\ LET f == frame[p]
           keys == AssignKeys(f.out_edges)
       IN  IF f.out_nodes = <<>> \/ f.out_edges = <<>>
           THEN /\ Finish(p, [f EXCEPT !.err = "IndexError"])
                /\ asm' = asm
           ELSE /\ Finish(p, [f EXCEPT !.keys = keys])
                /\ asm' = [sel |-> f.sel, tx0 |-> f.tx0,
                           keys |-> {<<f.out_edges[i].id, keys[i]>> : i \in 1..Len(keys)}]
    /\ UNCHANGED <<nodes, node_id_seq, edges, edges_id_seq, files, calls, hist,
                   graphs, graphs_id_seq, graph_edges, graph_edges_id_seq, cwd, txVars>>

\* the coroutine returns (or raises) to its caller
Return(p) ==
    /\ pc[p] = "done"
    /\ pc' = [pc EXCEPT ![p] = "idle"]
    /\ frame' = [frame EXCEPT ![p] = IdleFrame]
    /\ hist' = IF frame[p].op = "node.create" /\ frame[p].err = ""
               THEN [d \in DOMAIN hist \cup {frame[p].dto} |->
                        IF d = frame[p].dto THEN frame[p].ret.id ELSE hist[d]]
               ELSE IF frame[p].op = "graph.add_edge" /\ frame[p].err = ""
               THEN [d \in DOMAIN hist \cup {<<frame[p].edto, frame[p].graph>>} |->
                        IF d = <<frame[p].edto, frame[p].graph>> THEN frame[p].link ELSE hist[d]]
               ELSE hist
    /\ UNCHANGED <<nodes, node_id_seq, files, calls, edges, edges_id_seq, graphVars, txVars>>

\* the node inputs of the model
NodeDtos(types, pts, routes) == [type : types, point : pts, route : routes]

\* the batches of at most MaxBatch rows, and the areas a batch may be scoped to
RECURSIVE SeqsUpTo(_, _)
SeqsUpTo(S, n) == IF n = 0 THEN {<<>>} ELSE SeqsUpTo(S, n - 1) \cup {Append(s, x) : s \in SeqsUpTo(S, n - 1), x \in S}
NodeBatches(types, pts, routes) == SeqsUpTo(NodeDtos(types, pts, routes), MaxBatch) \ {<<>>}
Areas(pts) == {NoGeometry, pts, {Min(pts)}}

NodeNext(P, types, pts, routes) ==
    \E p \in P :
        \/ \E dto \in NodeDtos(types, pts, routes) : NodeCreate_match(p, dto)
        \/ NodeCreate_select_one(p)
        \/ NodeCreate_insert(p)
        \/ \E input \in NodeBatches(types, pts, routes), geometry \in Areas(pts) :
                NodeCreateMany_prefilter(p, input, geometry)
        \/ NodeCreateMany_copy(p)
        \/ NodeCreateMany_resolve(p)
        \/ Return(p)

\* the edge inputs of the model: endpoints by id or as node records
EdgeDtos(ends, weights, routes, lines) ==
    [u : ends, v : ends, type : {"DRIVE"}, weight : weights, route : routes, geometry : lines]

\* the rows bulk_graph_upload hands to EdgeService.create_many: endpoints by id
EdgeBatches(ids, routes, lines) ==
    SeqsUpTo([u : ids, v : ids, type : {"DRIVE"}, weight : {1}, route : routes, geometry : lines], MaxBatch)
        \ {<<>>}

EdgeNext(P, ends, weights, routes, lines, ids, broutes, areas) ==
    \E p \in P :
        \/ \E dto \in EdgeDtos(ends, weights, routes, lines) : EdgeCreate_match(p, dto)
        \/ EdgeCreate_select_one(p)
        \/ EdgeCreate_node_u(p)
        \/ EdgeCreate_node_v(p)
        \/ NodeCreate_select_one(p)
        \/ NodeCreate_insert(p)
        \/ EdgeCreate_insert(p)
        \/ \E input \in EdgeBatches(ids, broutes, lines \ {NoLine}), geometry \in areas :
                EdgeCreateMany_prefilter(p, input, geometry)
        \/ EdgeCreateMany_copy(p)
        \/ EdgeCreateMany_resolve(p)
        \/ Return(p)

\* two coroutines interleaving on the node service
Next == NodeNext(Procs, NodeTypeEnum, {10}, {""})

Spec == Init /\ [][Next]_vars

\* one caller of the edge service, one call after the other
EdgeEnds == {NodeDto([type |-> "DRIVE", point |-> 10, route |-> ""]),
             NodeDto([type |-> "DRIVE", point |-> 20, route |-> ""]), NodeId(1)}
EdgeLines == {<<10, 20>>, <<20, 10>>}
NextEdge == EdgeNext({1}, EdgeEnds, {1, 2}, {NULL, ""}, EdgeLines, {1, 2}, {""}, {NoGeometry, {10, 20}})

SpecEdge == Init /\ [][NextEdge]_vars

\* one caller, one call after the other
NextSeq == NodeNext({1}, {"DRIVE"}, {20, 21}, {"", "r1"})

SpecSeq == Init /\ [][NextSeq]_vars

\* the graph inputs of the model
GraphDtos(names) == [name : names, type : {"ROAD"}]

GraphNext(P, names, graphIds, ends, routes, lines, nodeIds, edgeIds) ==
    \E p \in P :
        \/ \E dto \in GraphDtos(names) : GraphCreate_check(p, dto)
        \/ GraphCreate_insert(p)
        \/ \E dto \in EdgeDtos(ends, {1}, routes, lines), graph \in graphIds :
                GraphAddEdge_select_one(p, dto, graph)
        \/ GraphAddEdge_create(p)
        \/ GraphAddEdge_link(p)
        \/ GraphAddEdge_insert(p)
        \/ \E dto \in EdgeDtos(ends, {1}, routes, lines) : EdgeCreate_match(p, dto)
        \/ EdgeCreate_select_one(p)
        \/ EdgeCreate_node_u(p)
        \/ EdgeCreate_node_v(p)
        \/ NodeCreate_select_one(p)
        \/ NodeCreate_insert(p)
        \/ EdgeCreate_insert(p)
        \/ \E id_or_name \in names \cup {Str(i) : i \in graphIds} : GraphSelectOne(p, id_or_name)
        \/ \E node_id \in nodeIds : NodeDelete(p, node_id)
        \/ \E edge_id \in edgeIds : EdgeDelete(p, edge_id)
        \/ Return(p)

\* two coroutines interleaving on the graph service, the edge service and the deletes
GraphNames == {<<"g">>, <<"7">>}
GraphEnds == {NodeDto([type |-> "DRIVE", point |-> 10, route |-> ""]),
              NodeDto([type |-> "DRIVE", point |-> 20, route |-> ""])}
NextGraph == GraphNext(Procs, GraphNames, {1}, GraphEnds, {NULL}, {<<10, 20>>}, {1}, {1})

SpecGraph == Init /\ [][NextGraph]_vars

\* the graph service's bulk upload of relationships: the coroutines of S store graphs
\* and edges, every coroutine of P links edges to a stored graph through create_many
RelNext(P, S, names, dtos, graphIds, edgeIds, areas) ==
    \/ \E p \in S :
        \/ \E dto \in GraphDtos(names) : GraphCreate_check(p, dto)
        \/ GraphCreate_insert(p)
        \/ \E dto \in dtos : EdgeCreate_match(p, dto)
        \/ EdgeCreate_select_one(p)
        \/ EdgeCreate_node_u(p)
        \/ EdgeCreate_node_v(p)
        \/ NodeCreate_select_one(p)
        \/ NodeCreate_insert(p)
        \/ EdgeCreate_insert(p)
    \/ \E p \in P :
        \/ \E graph \in graphIds \cap {g.id : g \in graphs},
              edge_ids \in SeqsUpTo(edgeIds, MaxBatch) \ {<<>>}, geometry \in areas :
                GraphCreateMany_start(p, graph, edge_ids, geometry)
        \/ GraphCreateMany_to_csv(p)
        \/ GraphCreateMany_copy(p)
        \/ GraphCreateMany_unlink(p)
        \/ Return(p)

RelNames == {<<"g">>, <<"h">>}
RelEdges == {d \in EdgeDtos(GraphEnds, {1}, {NULL}, {<<10, 20>>}) : d.u.dto.point = 10}
NextRel == RelNext(Procs, {1}, RelNames, RelEdges, {1, 2}, {1}, {NoGeometry, {10, 20}})

SpecRel == Init /\ [][NextRel]_vars

\* one caller that stores graphs and links edges to them through add_edge, the links
\* counted on top of the creates
LinkNext(P, names, dtos, graphIds) ==
    \E p \in P :
        \/ \E dto \in GraphDtos(names) : GraphCreate_check(p, dto)
        \/ GraphCreate_insert(p)
        \/ \E dto \in dtos, graph \in graphIds : GraphAddEdgeStart(p, dto, graph, MaxCalls + MaxLinks)
        \/ GraphAddEdge_create(p)
        \/ GraphAddEdge_link(p)
        \/ GraphAddEdge_insert(p)
        \/ EdgeCreate_select_one(p)
        \/ EdgeCreate_node_u(p)
        \/ EdgeCreate_node_v(p)
        \/ NodeCreate_select_one(p)
        \/ NodeCreate_insert(p)
        \/ EdgeCreate_insert(p)
        \/ Return(p)

LinkEdges == {d \in EdgeDtos(GraphEnds, {1}, {""}, {<<10, 20>>, <<20, 10>>}) : d.u.dto.point = 10}
NextLink == LinkNext({1}, RelNames, LinkEdges, {1, 2})

SpecLink == Init /\ [][NextLink]_vars

\* the inputs of bulk_graph_upload: node records, and edge records whose u and v are
\* row positions of the node records
BulkNodes(pts) == SeqsUpTo(NodeDtos({"DRIVE"}, pts, {""}), MaxBatch) \ {<<>>}
BulkEdges(n, us, routes, lines) ==
    SeqsUpTo([u : us \cap 0..(n - 1), v : 0..(n - 1), type : {"DRIVE"}, weight : {1}, route : routes, geometry : lines],
             MaxBatch)

BulkNext(P, names, graphIds, stored, pts, us, routes, lines) ==
    \E p \in P :
        \/ \E dto \in GraphDtos(names) : GraphCreate_check(p, dto)
        \/ GraphCreate_insert(p)
        \/ \E input \in NodeBatches({"DRIVE"}, stored, {""}) : NodeCreateMany_prefilter(p, input, NoGeometry)
        \/ \E bnodes \in BulkNodes(pts), graph \in graphIds :
                \E bedges \in BulkEdges(Len(bnodes), us, routes, lines) : GraphBulk_start(p, bnodes, bedges, graph)
        \/ NodeCreateMany_copy(p)
        \/ NodeCreateMany_resolve(p)
        \/ GraphBulk_sleep(p)
        \/ GraphBulk_edges(p)
        \/ EdgeCreateMany_copy(p)
        \/ EdgeCreateMany_resolve(p)
        \/ GraphBulk_unpack(p)
        \/ Return(p)

\* one caller of bulk_graph_upload, on a store that may hold the nodes at 20 and 21
NextBulk == BulkNext({1}, {<<"g">>}, {1}, {21}, {20, 40}, {0}, {"", NULL}, {<<20, 40>>})

SpecBulk == Init /\ [][NextBulk]_vars

\* the selectors of the model
Selectors(names, areas, types) == [id_or_name : names, geometry : areas, type : types]

AsmNext(P, names, graphIds, ends, lines, lookupIds, selectors) ==
    \E p \in P :
        \/ \E dto \in GraphDtos(names) : GraphCreate_check(p, dto)
        \/ GraphCreate_insert(p)
        \/ \E dto \in EdgeDtos(ends, {1}, {""}, lines), graph \in graphIds :
                GraphAddEdge_select_one(p, dto, graph)
        \/ GraphAddEdge_create(p)
        \/ GraphAddEdge_link(p)
        \/ GraphAddEdge_insert(p)
        \/ EdgeCreate_select_one(p)
        \/ EdgeCreate_node_u(p)
        \/ EdgeCreate_node_v(p)
        \/ NodeCreate_select_one(p)
        \/ NodeCreate_insert(p)
        \/ EdgeCreate_insert(p)
        \/ \E _id \in lookupIds : NodeSelectOne(p, _id)
        \/ \E _id \in lookupIds : EdgeSelectOne(p, _id)
        \/ \E id_or_name \in {dto.id_or_name : dto \in selectors} \ {NoName} : GraphSelectOne(p, id_or_name)
        \/ \E dto \in selectors : GraphSelectWithEdges_start(p, dto)
        \/ GraphSelectWithEdges_edges(p)
        \/ GraphSelectWithEdges_nodes(p)
        \/ \E dto \in selectors : GraphBuild_start(p, dto)
        \/ GraphBuild_assemble(p)
        \/ Return(p)

\* one caller that fills a graph with edges between two nodes and assembles it
AsmLines == {<<10, 20>>, <<10, 30, 20>>}
NextAsm == AsmNext({1}, {<<"g">>}, {1}, GraphEnds, AsmLines, {1, 2},
                   Selectors({NoName, <<"1">>, <<"g">>}, {NoGeometry, {10, 20}}, SelectTypes))

SpecAsm == Init /\ [][NextAsm]_vars

\* one caller that links edges of every type to a graph and selects or assembles it by
\* transport mode
ModeNext(P, names, dtos, graphIds, selectors) ==
    \E p \in P :
        \/ \E dto \in GraphDtos(names) : GraphCreate_check(p, dto)
        \/ GraphCreate_insert(p)
        \/ \E dto \in dtos, graph \in graphIds : GraphAddEdge_select_one(p, dto, graph)
        \/ GraphAddEdge_create(p)
        \/ GraphAddEdge_link(p)
        \/ GraphAddEdge_insert(p)
        \/ EdgeCreate_select_one(p)
        \/ EdgeCreate_node_u(p)
        \/ EdgeCreate_node_v(p)
        \/ NodeCreate_select_one(p)
        \/ NodeCreate_insert(p)
        \/ EdgeCreate_insert(p)
        \/ \E dto \in selectors : GraphSelectWithEdges_start(p, dto)
        \/ GraphSelectWithEdges_edges(p)
        \/ GraphSelectWithEdges_nodes(p)
        \/ \E dto \in selectors : GraphBuild_start(p, dto)
        \/ GraphBuild_assemble(p)
        \/ Return(p)

ModeEdges == {[d EXCEPT !.type = t] : d \in RelEdges, t \in EdgeTypeEnum}
               \cup {[d EXCEPT !.type = t, !.geometry = <<10, 30, 20>>] : d \in RelEdges, t \in EdgeTypeEnum}
NextMode == ModeNext({1}, {<<"g">>}, ModeEdges, {1}, Selectors({<<"1">>}, {NoGeometry}, SelectTypes))

SpecMode == Init /\ [][NextMode]_vars

(***************************************************************************)
(* The single-create path as a function of the table: what an              *)
(* uninterrupted NodeService.create(dto) leaves in nodes.                  *)
(***************************************************************************)
NodeCreateSeq(tbl, dto) ==
    LET ids == MatchNodesByGeometry(tbl, dto.point)
        row == NodeCreateRow(dto, Max({0} \cup {n.id : n \in tbl}) + 1)
    IN  IF ids # {} \/ NodeInsertConflicts(tbl, row) THEN tbl ELSE tbl \cup {row}

RECURSIVE NodeCreateAll(_, _)
NodeCreateAll(tbl, input) ==
    IF input = <<>> THEN tbl ELSE NodeCreateAll(NodeCreateSeq(tbl, Head(input)), Tail(input))

BulkOps == {"node.create_many", "edge.create_many", "graph.create_many"}
DtoKey(dto) == <<dto.type, dto.point, dto.route>>
Keys(tbl) == {NodeKey(n) : n \in tbl}

\* C1: in every reachable state at most one node row exists per (type, point, route)
C1_NodeMultiunique == \A a, b \in nodes : NodeKey(a) = NodeKey(b) => a = b

\* two concurrent creates of one dto both passed the dedup read; one row survived
C1_Witness ==
    \E p, q \in Procs :
        /\ p # q /\ pc[p] = "done" /\ pc[q] = "done"
        /\ frame[p].op = "node.create" /\ frame[q].op = "node.create"
        /\ frame[p].dto = frame[q].dto /\ frame[p].found = 0 /\ frame[q].found = 0
        /\ frame[p].err = "" /\ frame[q].err = "UniqueViolationError"

\* C2: create(x) called again after create(x) returned an id returns that id and adds no row
C2_NodeCreateIdempotent ==
    \A p \in Procs :
        (pc[p] = "done" /\ frame[p].op = "node.create" /\ frame[p].dto \in DOMAIN hist)
            => (frame[p].err = "" /\ frame[p].ret.id = hist[frame[p].dto] /\ nodes = frame[p].t0)

\* C3: edge create for a geometry that a stored edge has returns that edge as stored,
\* and leaves the edge and node tables as they were
C3_EdgeCreateIdempotent ==
    \A p \in Procs :
        (/\ pc[p] = "done" /\ frame[p].op = "edge.create" /\ frame[p].edto.geometry # NoLine
         /\ \E e \in frame[p].e0 : ST_EqualsLine(e.geometry, frame[p].edto.geometry))
            => /\ frame[p].err = ""
               /\ \E e \in frame[p].e0 : /\ ST_EqualsLine(e.geometry, frame[p].edto.geometry)
                                          /\ frame[p].edge = EdgeEntity(e)
               /\ edges = frame[p].e0
               /\ nodes = frame[p].t0

\* C4: every bulk create_many ends with a transfer that went through, after at most
\* n+1 attempts for its n rows
C4_LoopEndsInTransfer ==
    \A p \in Procs :
        (frame[p].op \in BulkOps)
            => /\ frame[p].attempts <= Len(frame[p].input) + 1
               /\ pc[p] = "done" => frame[p].err = ""

\* C5: when node create_many returns, every input row carries the id of a stored node
\* with the row's (type, point, route)
C5_ResolvedIds ==
    \A p \in Procs :
        (pc[p] = "done" /\ frame[p].op = "node.create_many" /\ frame[p].err = "")
            => /\ Len(frame[p].df_nodes) = Len(frame[p].input)
               /\ \A i \in 1..Len(frame[p].input) :
                    \E n \in nodes : /\ n.id = frame[p].df_nodes[i].new_id
                                     /\ NodeKey(n) = DtoKey(frame[p].input[i])

\* C6: a COPY that raised a uniqueness violation leaves the table as it was
C6_FailedCopyCommitsNothing ==
    [][\A p \in Procs :
        /\ (pc[p] = "node.create_many.copy" /\ pc'[p] = "node.create_many.resolve") => nodes' = nodes
        /\ (pc[p] = "edge.create_many.copy" /\ pc'[p] = "edge.create_many.resolve") => edges' = edges]_vars

\* a COPY failed at a line that follows a line the index had accepted
C6_Witness ==
    \E p \in Procs :
        /\ pc[p] = "node.create_many.resolve" /\ Len(frame[p].df) >= 2
        /\ LET first == NodeOfCsv(frame[p].df_nodes[frame[p].df[1]], 0)
           IN  /\ \A n \in nodes : NodeKey(n) # NodeKey(first)
               /\ frame[p].detail # UniqueDetail(NodeKey(first))

\* C7: a conflict whose lookup finds no row ends in the row dropped and the loop going
\* on, never in an exception
C7_LookupMissDropsRow ==
    \A p \in Procs :
        (pc[p] = "done" /\ frame[p].op \in {"node.create_many", "edge.create_many"})
            => frame[p].err \notin {"404 NODE_NOT_FOUND", "404 EDGE_NOT_FOUND"}

\* C8: once a create_many has ended, by return or by exception, its csv file is gone
C8_CsvRemoved ==
    \A p \in Procs :
        (pc[p] = "done" /\ frame[p].op \in BulkOps) => frame[p].csv \notin files

\* C9: no creation operation ends in the store's UniqueViolationError
C9_ConflictNeverSurfaces ==
    \A p \in Procs : pc[p] = "done" => frame[p].err # "UniqueViolationError"

\* C10: a batch of distinct keys, none stored, leaves the rows that creating its
\* records one by one from the same table leaves
C10_BulkIsSequential ==
    \A p \in Procs :
        (/\ pc[p] = "done" /\ frame[p].op = "node.create_many"
         /\ \A i, j \in 1..Len(frame[p].input) :
                DtoKey(frame[p].input[i]) = DtoKey(frame[p].input[j]) => i = j
         /\ \A i \in 1..Len(frame[p].input) : DtoKey(frame[p].input[i]) \notin Keys(frame[p].t0))
            => /\ frame[p].err = ""
               /\ Keys(nodes) = Keys(NodeCreateAll(frame[p].t0, frame[p].input))

C15_EdgeMultiunique == \A a, b \in edges : EdgeKey(a) = EdgeKey(b) => a = b

\* C16: once delete_node(n) has returned no edge has n as u or v, once delete_edge(e)
\* has returned no relationship references e, and every foreign key points at a row
C16_Cascade ==
    /\ \A p \in Procs :
        /\ (pc[p] = "done" /\ frame[p].op = "node.delete_node")
            => \A e \in edges : e.u # frame[p].found /\ e.v # frame[p].found
        /\ (pc[p] = "done" /\ frame[p].op = "edge.delete_edge")
            => \A r \in graph_edges : r.edge # frame[p].found
    /\ \A e \in edges : {e.u, e.v} \subseteq {n.id : n \in nodes}
    /\ \A r \in graph_edges : r.graph \in {g.id : g \in graphs} /\ r.edge \in {e.id : e \in edges}

\* C20: graph create with a numeric name ends in 400, with a name some stored graph
\* has in 409, both with table graphs untouched; no stored graph has a numeric name
C20_GraphCreateRejects ==
    [][/\ \A p \in Procs :
            (pc[p] = "idle" /\ frame'[p].op = "graph.create")
                => /\ isnumeric(frame'[p].name)
                        => (pc'[p] = "done" /\ frame'[p].err = "400 name can't be numeric")
                   /\ (~isnumeric(frame'[p].name) /\ \E g \in graphs : g.name = frame'[p].name)
                        => (pc'[p] = "done" /\ frame'[p].err = "409 graph with such name already exists")
                   /\ graphs' = graphs
       /\ \A g \in graphs' : ~isnumeric(g.name)]_vars

\* the ids NodeService.create_many resolved the node record at row position k to: the
\* new_id of the rows of the returned frame that carry that record
ResolvedNodeIds(f, k) ==
    {f.df_nodes[j].new_id : j \in {i \in 1..Len(f.df_nodes) :
        /\ f.df_nodes[i].type = f.bnodes[k + 1].type
        /\ f.df_nodes[i].point = Ewkt(Wkt(f.bnodes[k + 1].point))
        /\ f.df_nodes[i].route = CleanRoute(f.bnodes[k + 1].route)}}

\* C11: a bulk upload of E >= 1 distinct edge records into an existing graph that has no
\* relationship yet returns without error, reports as node count the rows it added to
\* nodes, as edge count the rows it added to edges (E minus the duplicates of stored
\* edges) and as relationship count E, and leaves every edge of the batch linked to the
\* graph
C11_BulkReportsStageCounts ==
    \A p \in Procs :
        LET f == frame[p]
        IN  (/\ pc[p] = "done"
             /\ f.op = "graph.bulk_graph_upload"
             /\ f.bedges # <<>>
             /\ \A i \in 1..Len(f.bedges) : f.bedges[i].route # NULL
             /\ \A i, j \in 1..Len(f.bedges) : f.bedges[i] = f.bedges[j] => i = j
             /\ \A i, j \in 1..Len(f.bnodes) : f.bnodes[i] = f.bnodes[j] => i = j
             /\ \E g \in f.g0 : g.id = f.graph
             /\ \A r \in f.l0 : r.graph # f.graph)
            => /\ f.err = ""
               /\ f.report.nodes = Cardinality(nodes \ f.t0)
               /\ f.report.edges = Cardinality(edges \ f.e0)
               /\ f.report.relationships = Len(f.bedges)
               /\ \A i \in 1..Len(f.df_edges) :
                     \E r \in graph_edges : r.graph = f.graph /\ r.edge = f.df_edges[i].new_id

\* C12: a bulk upload with no edge records and at least one node record returns without
\* error, every node record persisted or resolved, reporting 0 edges and 0 relationships
C12_BulkWithoutEdges ==
    \A p \in Procs :
        LET f == frame[p]
        IN  (/\ pc[p] = "done"
             /\ f.op = "graph.bulk_graph_upload"
             /\ f.bedges = <<>>
             /\ f.bnodes # <<>>
             /\ \A i \in 1..Len(f.bnodes) : f.bnodes[i].route # NULL)
            => /\ f.err = ""
               /\ f.report.edges = 0
               /\ f.report.relationships = 0
               /\ \A i \in 1..Len(f.bnodes) : \E n \in nodes : NodeKey(n) = DtoKey(f.bnodes[i])

\* C13: when the edge stage of a bulk upload has returned, the edge row each edge record
\* was persisted as or resolved to has as u and v existing node rows, and they are ids
\* the node stage resolved the node records at the referenced row positions to
C13_EndpointsFollowPositions ==
    \A p \in Procs :
        LET f == frame[p]
        IN  (/\ pc[p] = "graph.bulk.unpack"
             /\ Len(f.df_edges) = Len(f.bedges))
            => \A i \in 1..Len(f.bedges) :
                  \E e \in edges :
                      /\ e.id = f.df_edges[i].new_id
                      /\ e.u \in ResolvedNodeIds(f, f.bedges[i].u)
                      /\ e.v \in ResolvedNodeIds(f, f.bedges[i].v)
                      /\ \E n \in nodes : n.id = e.u
                      /\ \E n \in nodes : n.id = e.v

\* C17: in every graph build_nx_graph assembled, the edges returned for one ordered pair
\* (u, v) carry, in the order the store returned them, the keys 0, 1, ..., k-1; so no two
\* returned edges share (u, v, key), and (u, v) and (v, u) are keyed apart
C17_ParallelEdgeKeys ==
    \A p \in Procs :
        LET f == frame[p]
            es == f.out_edges
            same(i, j) == es[i].u = es[j].u /\ es[i].v = es[j].v
        IN  (pc[p] = "done" /\ f.op = "graph.build_nx_graph" /\ f.err = "")
            => /\ Len(f.keys) = Len(es)
               /\ \A i \in 1..Len(es) :
                     /\ f.keys[i] \in 0..(Cardinality({j \in 1..Len(es) : same(i, j)}) - 1)
                     /\ \A j \in 1..Len(es) : (i < j /\ same(i, j)) => f.keys[i] < f.keys[j]
               /\ \A i, j \in 1..Len(es) :
                     <<es[i].u, es[i].v, f.keys[i]>> = <<es[j].u, es[j].v, f.keys[j]>> => i = j

\* a graph was assembled from two parallel edges, the one with the higher id returned
\* first: it has key 0 and the other key 1
C17_Witness ==
    \E p \in Procs :
        LET es == frame[p].out_edges
        IN  /\ pc[p] = "done" /\ frame[p].op = "graph.build_nx_graph" /\ frame[p].err = ""
            /\ \E i, j \in 1..Len(es) :
                  /\ i < j /\ es[i].u = es[j].u /\ es[i].v = es[j].v /\ es[i].id > es[j].id
                  /\ frame[p].keys[i] = 0 /\ frame[p].keys[j] = 1

\* C18: a build_nx_graph that ran with the selector of the build before it, no
\* transaction having written in between, gives every edge the key that build gave it
C18_KeysReproduced ==
    [][\A p \in Procs :
          (/\ pc[p] = "graph.build.assemble"
           /\ pc'[p] = "done"
           /\ frame'[p].err = ""
           /\ asm.sel = frame[p].sel
           /\ asm.tx0 = txid)
          => asm'.keys = asm.keys]_vars

\* C19: select_one_with_edges on a stored graph g, no area given, returns g, each edge
\* that has a relationship with g once and no other edge, and each node that is an
\* endpoint of one of them once and no other node
C19_SelectsGraphClosure ==
    \A p \in Procs :
        LET f == frame[p]
            linked == {e \in edges : \E r \in graph_edges : r.graph = f.out_graph /\ r.edge = e.id}
            ends == {n \in nodes : \E e \in linked : n.id \in {e.u, e.v}}
        IN  (/\ pc[p] = "done"
             /\ f.op = "graph.select_one_with_edges"
             /\ f.sel.id_or_name # NoName
             /\ f.sel.geometry = NoGeometry
             /\ SelectGraphs(f.sel.id_or_name) # {})
            => /\ f.err = ""
               /\ f.out_graph \in {g.id : g \in SelectGraphs(f.sel.id_or_name)}
               /\ {e.id : e \in Range(f.out_edges)} = {e.id : e \in linked}
               /\ Len(f.out_edges) = Cardinality(linked)
               /\ {n.id : n \in Range(f.out_nodes)} = {n.id : n \in ends}
               /\ Len(f.out_nodes) = Cardinality(ends)

\* C21: in every reachable state no two rows of table graphs have the same name
C21_GraphNamesUnique == \A a, b \in graphs : a.name = b.name => a = b

\* C22: a graph select_one by str(g.id) or by g.name of a stored graph g returns g: a
\* numeric argument is resolved by id, any other by name, and no argument resolves to
\* a graph other than the one it names
C22_SelectOneByIdAndName ==
    \A p \in Procs :
        LET f == frame[p]
        IN  (pc[p] = "done" /\ f.op = "graph.select_one")
            => \A g \in f.g0 :
                  (f.name = Str(g.id) \/ f.name = g.name) => (f.err = "" /\ f.out_graph = g.id)

\* C23: a lookup by id or name (node, edge and graph select_one, select_one_with_edges
\* and build_nx_graph with an id or name) that matches no row ends in its 404 after the
\* one statement it ran, and leaves every table as it was
C23_LookupMissIs404 ==
    [][\A p \in Procs :
          LET f == frame'[p]
              miss == \/ f.op = "node.select_one" /\ f.found \notin {n.id : n \in nodes}
                      \/ f.op = "edge.select_one" /\ f.found \notin {e.id : e \in edges}
                      \/ f.op = "graph.select_one" /\ SelectGraphs(f.name) = {}
                      \/ /\ f.op \in {"graph.select_one_with_edges", "graph.build_nx_graph"}
                         /\ f.sel.id_or_name # NoName
                         /\ SelectGraphs(f.sel.id_or_name) = {}
              detail == IF f.op = "node.select_one" THEN "404 NODE_NOT_FOUND"
                        ELSE IF f.op = "edge.select_one" THEN "404 EDGE_NOT_FOUND"
                        ELSE "404 GRAPH_NOT_FOUND"
          IN  (pc[p] = "idle" /\ pc'[p] # "idle" /\ miss)
              => /\ pc'[p] = "done"
                 /\ f.err = detail
                 /\ f.attempts = 1
                 /\ <<nodes, edges, graphs, graph_edges>>' = <<nodes, edges, graphs, graph_edges>>]_vars

\* an edge lookup by an id no row has ended in 404 on a table that holds other edges
C23_Witness ==
    \E p \in Procs :
        /\ pc[p] = "done"
        /\ frame[p].op = "edge.select_one"
        /\ frame[p].err = "404 EDGE_NOT_FOUND"
        /\ edges # {}
        /\ frame[p].e0 = edges

\* C24: once relationship create_many(graph, edge ids, scope) has returned, table
\* graph_edges holds exactly one row (graph, edge) for every edge id of the input,
\* the reported count is the number of rows the call inserted, and no two rows of
\* the table share (graph, edge).
C24_CreateManyLinksEveryEdge ==
    /\ \A a, b \in graph_edges : RelationshipKey(a) = RelationshipKey(b) => a = b
    /\ \A p \in Procs :
          LET f == frame[p]
          IN  (pc[p] = "done" /\ f.op = "graph.create_many" /\ f.err = "")
              => /\ \A i \in 1..Len(f.input) :
                        Cardinality({r \in graph_edges : r.graph = f.graph /\ r.edge = f.input[i]}) = 1
                 /\ f.uploaded = Cardinality({r \in graph_edges : r.id \in Range(f.res)})

C26_NodeMatcherScoped ==
    \A p \in Procs :
        LET f == frame[p]
            same == {n \in f.t0 : n.point = f.dto.point /\ n.type = f.dto.type /\ n.route = f.dto.route}
        IN  (pc[p] = "done" /\ f.op = "node.create")
            => /\ (f.err = "" /\ f.ret.id \in {n.id : n \in f.t0})
                    => f.ret.id \in {n.id : n \in same}
               /\ (same = {} /\ \E n \in f.t0 : n.point = f.dto.point)
                    => /\ f.err = ""
                       /\ f.ret.id \notin {n.id : n \in f.t0}
                       /\ f.ret.id \in {n.id : n \in nodes}

\* C27: edge create returns the id of an edge stored before the call only when that
\* row equals the input on (u, v, type, geometry, route); when a stored edge has the
\* input's geometry but none has its full key, the call returns and its id is that of
\* a new row.
C27_EdgeMatcherFullKey ==
    \A p \in Procs :
        LET f == frame[p]
            at(end, id) == IF IsCreateNodeDTO(end)
                           THEN \E n \in nodes : n.id = id /\ n.point = end.dto.point
                           ELSE id = end.id
            same == {e \in f.e0 : /\ at(f.edto.u, e.u) /\ at(f.edto.v, e.v)
                                  /\ e.type = f.edto.type
                                  /\ ST_OrderingEquals(e.geometry, f.edto.geometry)
                                  /\ e.route = f.edto.route}
        IN  (pc[p] = "done" /\ f.op = "edge.create")
            => /\ (f.err = "" /\ f.edge.id \in {e.id : e \in f.e0})
                    => f.edge.id \in {e.id : e \in same}
               /\ (same = {} /\ \E e \in f.e0 : ST_EqualsLine(e.geometry, f.edto.geometry))
                    => /\ f.err = ""
                       /\ f.edge.id \notin {e.id : e \in f.e0}
                       /\ f.edge.id \in {e.id : e \in edges}

\* C28: every edge that select_one_with_edges or build_nx_graph returns has a type of
\* the selector's transport mode: DRIVE for 'drive', WALK for 'walk', WATERCHANNEL for
\* 'water', any type but WATERCHANNEL for 'intermodal'.
C28_TransportModeSubset ==
    \A p \in Procs :
        LET f == frame[p]
            subset == IF f.sel.type = "drive" THEN {"DRIVE"}
                      ELSE IF f.sel.type = "walk" THEN {"WALK"}
                      ELSE IF f.sel.type = "water" THEN {"WATERCHANNEL"}
                      ELSE {"DRIVE", "WALK"}
        IN  (/\ pc[p] = "done"
             /\ f.op \in {"graph.select_one_with_edges", "graph.build_nx_graph"}
             /\ f.err = "")
            => \A i \in 1..Len(f.out_edges) : f.out_edges[i].type \in subset

\* a selection by mode from a graph that links an edge of the mode, which is returned,
\* and an edge of another type, which is not
C28_Witness ==
    \E p \in Procs :
        LET f == frame[p]
        IN  /\ pc[p] = "done" /\ f.op = "graph.select_one_with_edges" /\ f.err = ""
            /\ f.sel.type = "water"
            /\ Len(f.out_edges) = 1
            /\ \E r \in graph_edges, e \in edges :
                  r.graph = f.out_graph /\ r.edge = e.id /\ e.type # "WATERCHANNEL"

\* C29: within one bulk upload the stages run in order.  An edge transfer is attempted,
\* or table edges written, only in the edge stage and after the node stage returned an
\* id of a stored node for every node record; table graph_edges is written only after
\* the edge stage returned; and an upload whose node stage failed leaves edges and
\* graph_edges as they were when it started.
C29_StagesOrdered ==
    [][\A p \in Procs :
          LET f == frame[p]
          IN  f.op = "graph.bulk_graph_upload"
              => /\ (pc[p] = "edge.create_many.copy" \/ edges' # edges \/ edges_id_seq' # edges_id_seq)
                      => /\ f.stage = "edges"
                         /\ \A k \in 0..(Len(f.bnodes) - 1) :
                               /\ ResolvedNodeIds(f, k) # {}
                               /\ ResolvedNodeIds(f, k) \subseteq {n.id : n \in nodes}
                 /\ (graph_edges' # graph_edges \/ graph_edges_id_seq' # graph_edges_id_seq)
                      => f.stage = "relationships"
                 /\ (pc'[p] = "done" /\ frame'[p].err # "" /\ f.stage = "nodes")
                      => (edges' = f.e0 /\ graph_edges' = f.l0)]_vars

\* an upload whose node stage stored one of two node records and resolved the other to
\* a stored node, at its first edge transfer
C29_Witness ==
    \E p \in Procs :
        LET f == frame[p]
        IN  /\ pc[p] = "edge.create_many.copy" /\ f.op = "graph.bulk_graph_upload"
            /\ f.attempts = 0 /\ Len(f.bnodes) = 2 /\ f.report.nodes = 1
            /\ edges = {}

\* C30: an edge create whose endpoints are node records returns, when an edge with the
\* input's geometry is stored, that edge and stores no node and no edge; otherwise it
\* returns a new edge whose u and v are the ids of nodes at the points of the two
\* records, a node stored before the call being reused for its point and no other node
\* being stored.
C30_EdgeCreateResolvesEndpoints ==
    \A p \in Procs :
        LET f == frame[p]
            stored == {e \in f.e0 : ST_EqualsLine(e.geometry, f.edto.geometry)}
            before(pt) == {n.id : n \in {m \in f.t0 : m.point = pt}}
            ends == {f.edto.u.dto.point, f.edto.v.dto.point}
        IN  (/\ pc[p] = "done" /\ f.op = "edge.create"
             /\ IsCreateNodeDTO(f.edto.u) /\ IsCreateNodeDTO(f.edto.v))
            => /\ f.err = ""
               /\ stored # {}
                    => (f.edge.id \in {e.id : e \in stored} /\ nodes = f.t0 /\ edges = f.e0)
               /\ stored = {}
                    => \E e \in edges \ f.e0 :
                          /\ edges = f.e0 \cup {e}
                          /\ f.edge.id = e.id
                          /\ \E n \in nodes : n.id = e.u /\ n.point = f.edto.u.dto.point
                          /\ \E n \in nodes : n.id = e.v /\ n.point = f.edto.v.dto.point
                          /\ before(f.edto.u.dto.point) # {} => e.u \in before(f.edto.u.dto.point)
                          /\ before(f.edto.v.dto.point) # {} => e.v \in before(f.edto.v.dto.point)
                          /\ f.t0 \subseteq nodes
                          /\ \A n \in nodes \ f.t0 : n.id \in {e.u, e.v}

EdgeRecordKey(rec) == EdgeKey(EdgeOfCsv([EdgeRecord(rec, 0) EXCEPT !.geometry = Ewkt(@)], 0))

\* C32: a create_many whose batch holds one dedup key twice, no row of that key stored
\* before the call, returns without an exception, leaves exactly one row of the key and
\* gives both input rows its id (nodes)
C32_InBatchDuplicateNodes ==
    \A p \in Procs :
        (pc[p] = "done" /\ frame[p].op = "node.create_many")
            => \A i, j \in 1..Len(frame[p].input) :
                 (/\ i < j
                  /\ DtoKey(frame[p].input[i]) = DtoKey(frame[p].input[j])
                  /\ DtoKey(frame[p].input[i]) \notin Keys(frame[p].t0))
                 => /\ frame[p].err = ""
                    /\ Len(frame[p].df_nodes) = Len(frame[p].input)
                    /\ \E n \in nodes :
                          /\ NodeKey(n) = DtoKey(frame[p].input[i])
                          /\ frame[p].df_nodes[i].new_id = n.id
                          /\ frame[p].df_nodes[j].new_id = n.id

\* the same for edges: both input rows are in the returned frame with the id of the one
\* stored row of the key
C32_InBatchDuplicateEdges ==
    \A p \in Procs :
        (pc[p] = "done" /\ frame[p].op = "edge.create_many")
            => \A i, j \in 1..Len(frame[p].input) :
                 (/\ i < j
                  /\ EdgeRecordKey(frame[p].input[i]) = EdgeRecordKey(frame[p].input[j])
                  /\ EdgeRecordKey(frame[p].input[i]) \notin {EdgeKey(e) : e \in frame[p].e0}
                  /\ {frame[p].input[i].u, frame[p].input[i].v} \subseteq {n.id : n \in nodes})
                 => /\ frame[p].err = ""
                    /\ Len(frame[p].df_edges) = Len(frame[p].input)
                    /\ \E e \in edges :
                          /\ EdgeKey(e) = EdgeRecordKey(frame[p].input[i])
                          /\ frame[p].df_edges[i].new_id = e.id
                          /\ frame[p].df_edges[j].new_id = e.id

\* C33: the frame a completed edge create_many returns has one row per input record, the
\* i-th row being the i-th input record
C33_OneRowPerInputEdge ==
    \A p \in Procs :
        (pc[p] = "done" /\ frame[p].op = "edge.create_many" /\ frame[p].err = "")
            => /\ Len(frame[p].df_edges) = Len(frame[p].input)
               /\ \A i \in 1..Len(frame[p].df_edges) :
                    LET row == frame[p].df_edges[i]
                        rec == EdgeRecord(frame[p].input[i], i)
                    IN  /\ row.u = rec.u /\ row.v = rec.v /\ row.type = rec.type
                        /\ row.route = rec.route /\ row.geometry = Ewkt(rec.geometry)

\* C34: whatever the selector (graph, area, transport mode), every edge that
\* select_one_with_edges returns has its u and its v among the ids of the returned nodes
C34_EndpointsReturned ==
    \A p \in Procs :
        (pc[p] = "done" /\ frame[p].op = "graph.select_one_with_edges" /\ frame[p].err = "")
            => \A e \in Range(frame[p].out_edges) :
                 {e.u, e.v} \subseteq {n.id : n \in Range(frame[p].out_nodes)}

\* C35: a bulk upload run again on the store a run with the same records left (every
\* node record and every edge record of the batch is stored when the call starts)
\* returns without an exception, reports 0 nodes and 0 edges, and leaves the tables
\* nodes, edges and graph_edges as they were
C35_BulkUploadIdempotent ==
    \A p \in Procs :
        LET f == frame[p]
            key(k) == <<f.bnodes[k + 1].type, f.bnodes[k + 1].point, CleanRoute(f.bnodes[k + 1].route)>>
            stored(rec) == \E e \in f.e0, nu, nv \in f.t0 :
                              /\ NodeKey(nu) = key(rec.u) /\ NodeKey(nv) = key(rec.v)
                              /\ e.u = nu.id /\ e.v = nv.id /\ e.type = rec.type
                              /\ e.geometry = rec.geometry /\ e.route = CleanRoute(rec.route)
        IN  (/\ pc[p] = "done"
             /\ f.op = "graph.bulk_graph_upload"
             /\ f.bedges # <<>>
             /\ \A i \in 1..Len(f.bedges) : f.bedges[i].route # NULL
             /\ \E g \in f.g0 : g.id = f.graph
             /\ \A k \in 1..Len(f.bnodes) : key(k - 1) \in Keys(f.t0)
             /\ \A i \in 1..Len(f.bedges) : stored(f.bedges[i]))
            => /\ f.err = ""
               /\ f.report.nodes = 0 /\ f.report.edges = 0
               /\ nodes = f.t0 /\ edges = f.e0 /\ graph_edges = f.l0
====
